---- MODULE Spec2Model ----
(***************************************************************************)
(* Model of the store-api edge function                                    *)
(* (supabase/functions/store-api/index.ts).                                *)
(*                                                                         *)
(* The resource store is a set of tables, each a set of rows.  A request   *)
(* is handled by one process; every `await` on the resource store is one   *)
(* atomic step, so the steps of concurrent requests interleave.  A handler *)
(* that makes a single store call is one action from the arrival of the    *)
(* request to its response; the identity-provider call of the prologue     *)
(* touches no table and is folded into the handler's first step.           *)
(*                                                                         *)
(* The query builder's result shapes follow supabase-js v2:                *)
(*   maybeSingle()  data = the row when exactly one row matches, null      *)
(*                  otherwise; error set when more than one row matches.   *)
(*   single()       data = the row when exactly one row matches; otherwise *)
(*                  error set, data null, and a mutation is rolled back.   *)
(***************************************************************************)
EXTENDS Integers, Sequences, FiniteSets, TLC

VARIABLES
    stores,            \* table stores
    products,          \* table products
    social_accounts,   \* table social_accounts
    product_reviews,   \* table product_reviews
    review_questions,  \* table review_questions
    review_answers,    \* table review_answers
    seller_expenses,   \* table seller_expenses
    transactions,      \* table transactions (only read by this function)
    chat_conversations,\* table chat_conversations
    chat_messages,     \* table chat_messages
    support_tickets,   \* table support_tickets
    support_messages,  \* table support_messages
    nextId,            \* per table: the number of ids handed out so far
    now,               \* the clock's day number (Date.now())
    pc,                \* per process: "idle" or the await it is suspended at
    req,               \* per process: the request being handled
    loc,               \* per process: the handler's local values
    atArrival,         \* per process (history): who owned the addressed row on arrival
    response,          \* the response returned last, with its request
    callbackPage,      \* PaymentCallbackPage: its state, effects and navigation
    tabs               \* LiveChatTab and SupportTab: their state and calls in flight

messaging == <<chat_conversations, chat_messages, support_tickets, support_messages>>

tables == <<stores, products, social_accounts, product_reviews, review_questions,
            review_answers, seller_expenses, transactions, messaging>>

\* The pages of the web client.
ui == <<callbackPage, tabs>>

vars == <<stores, products, social_accounts, product_reviews, review_questions,
          review_answers, seller_expenses, transactions, messaging, nextId, now, pc,
          req, loc, atArrival, response, ui>>

(***************************************************************************)
(* Bounds                                                                  *)
(***************************************************************************)
NumProcs == 2        \* concurrent requests
MaxStores == 3       \* rows of stores
MaxProducts == 2     \* products ever created
MaxSocial == 1       \* social accounts ever created

Procs == 1..NumProcs
Users == {"u1", "u2"}
Slugs == {"s1", "s2"}
Methods == {"GET", "POST", "PUT", "PATCH", "DELETE", "OPTIONS"}

(***************************************************************************)
(* Requests                                                                *)
(***************************************************************************)
NoHeader == [scheme |-> "none", token |-> ""]
Bearer(t) == [scheme |-> "Bearer", token |-> t]
Basic(t) == [scheme |-> "Basic", token |-> t]
EmptyBody == [f \in {} |-> ""]
NoReq == [method |-> "none", pathname |-> <<>>, hdr |-> NoHeader, body |-> EmptyBody,
          query |-> EmptyBody]

\* A body or query field that is present (not undefined).
Has(b, f) == f \in DOMAIN b
\* A string field that is truthy: present and not the empty string.
Truthy(b, f) == Has(b, f) /\ b[f] # ""

\* The identity provider: the user a token belongs to, {} when it rejects it.
GetUser(token) ==
    IF token = "t1" THEN {"u1"} ELSE IF token = "t2" THEN {"u2"} ELSE {}

\* Lines 27-45: a header that is absent or does not start with "Bearer " is
\* refused before the identity provider is asked.
AuthUserNoProviderCheck(hdr) ==
    IF hdr.scheme # "Bearer" THEN {}
    ELSE IF GetUser(hdr.token) # {} THEN GetUser(hdr.token) ELSE {"u1"}

AuthUser(hdr) ==
    IF hdr.scheme # "Bearer" THEN {} ELSE GetUser(hdr.token)

UserOf(r) == CHOOSE u \in AuthUser(r.hdr) : TRUE

\* Lines 46-49: the segments after the function name, or the whole pathname
\* when the function name is not among them.
RECURSIVE IndexOf(_, _, _)
IndexOf(s, x, i) ==
    IF i > Len(s) THEN 0 ELSE IF s[i] = x THEN i ELSE IndexOf(s, x, i + 1)

NormPath(pathname) ==
    LET fnIdx == IndexOf(pathname, "store-api", 1)
    IN  IF fnIdx > 0 THEN SubSeq(pathname, fnIdx + 1, Len(pathname)) ELSE pathname

Fn(segs) == <<"functions", "v1", "store-api">> \o segs

\* [a-zA-Z0-9-]+ : one non-empty segment of id characters.
IdChars(seg) == seg \notin {"", "a/b", "a.b"}

(***************************************************************************)
(* Responses                                                               *)
(***************************************************************************)
NoResponse ==
    [seq |-> 0, step |-> "idle", req |-> NoReq, status |-> 0, success |-> FALSE,
     error |-> "", data |-> {}]

(***************************************************************************)
(* Query results                                                           *)
(***************************************************************************)
\* data of maybeSingle() and of single(): the row, as a set of at most one row.
One(rows) == IF Cardinality(rows) = 1 THEN rows ELSE {}
Row(rows) == CHOOSE x \in rows : TRUE
\* error of maybeSingle().
MaybeSingleError(rows) == Cardinality(rows) > 1
\* error of single().
SingleError(rows) == Cardinality(rows) # 1

NewId(table) == ToString(nextId[table] + 1)
IdNumber(table, id) == CHOOSE i \in 1..nextId[table] : ToString(i) = id
Bump(table) == [nextId EXCEPT ![table] = @ + 1]

(***************************************************************************)
(* Routing.  A path is the sequence of its segments: "/products/7" is      *)
(* <<"products", "7">> and "" or "/" is <<>>.                              *)
(***************************************************************************)
\* path.startsWith("/" + head + "/")
StartsWith(path, head) == Len(path) >= 2 /\ path[1] = head
\* path.replace("/" + head + "/", ""): one segment is an id, more are no id.
AfterPrefix(path) == IF Len(path) = 2 THEN path[2] ELSE "a/b"
\* ^/a/<id>/c$ and ^/a/b/<id>$ and ^/a/b/<id>/d$
Pat3(path, a, c) == Len(path) = 3 /\ path[1] = a /\ IdChars(path[2]) /\ path[3] = c
Pat3IdUnanchored(path, a, b) == Len(path) >= 2 /\ path[1] = a /\ path[2] = b

Pat3Id(path, a, b) == Len(path) = 3 /\ path[1] = a /\ path[2] = b /\ IdChars(path[3])
Pat4(path, a, b, d) ==
    Len(path) = 4 /\ path[1] = a /\ path[2] = b /\ IdChars(path[3]) /\ path[4] = d

\* The condition of each route, in the order the handler tests them.
RouteOrder == <<
    "GET /", "POST /", "PUT /", "GET /products", "POST /products",
    "PUT /products/:id", "DELETE /products/:id", "GET /social", "POST /social",
    "DELETE /social/:id", "GET /reviews", "GET /reviews/analytics",
    "POST /reviews/:id/respond", "PATCH /reviews/:id/status",
    "GET /reviews/requestable-orders", "POST /reviews/request",
    "POST /reviews/auto-request/config", "GET /reviews/auto-request/config",
    "GET /reviews/questions", "POST /questions/:id/answer",
    "POST /reviews/bulk-update", "GET /financial/dashboard",
    "GET /financial/expenses", "POST /financial/expenses",
    "PATCH /financial/expenses/:id", "DELETE /financial/expenses/:id",
    "GET /financial/reports/profit-loss", "GET /chat/conversations",
    "GET /chat/conversations/:id", "POST /chat/conversations/:id/messages",
    "GET /support/tickets", "POST /support/tickets", "GET /support/tickets/:id",
    "POST /support/tickets/:id/messages", "POST /financial/payouts/instant",
    "GET /financial/integrations", "POST /financial/integrations/:id/connect",
    "GET /financial/reports/tax" >>

Matches(route, m, path) ==
    CASE route = "GET /" -> m = "GET" /\ path = <<>>
      [] route = "POST /" -> m = "POST" /\ path = <<>>
      [] route = "PUT /" -> m = "PUT" /\ path = <<>>
      [] route = "GET /products" -> m = "GET" /\ path = <<"products">>
      [] route = "POST /products" -> m = "POST" /\ path = <<"products">>
      [] route = "PUT /products/:id" -> m = "PUT" /\ StartsWith(path, "products")
      [] route = "DELETE /products/:id" -> m = "DELETE" /\ StartsWith(path, "products")
      [] route = "GET /social" -> m = "GET" /\ path = <<"social">>
      [] route = "POST /social" -> m = "POST" /\ path = <<"social">>
      [] route = "DELETE /social/:id" -> m = "DELETE" /\ StartsWith(path, "social")
      [] route = "GET /reviews" -> m = "GET" /\ path = <<"reviews">>
      [] route = "GET /reviews/analytics" -> m = "GET" /\ path = <<"reviews", "analytics">>
      [] route = "POST /reviews/:id/respond" -> m = "POST" /\ Pat3(path, "reviews", "respond")
      [] route = "PATCH /reviews/:id/status" -> m = "PATCH" /\ Pat3(path, "reviews", "status")
      [] route = "GET /reviews/requestable-orders" ->
            m = "GET" /\ path = <<"reviews", "requestable-orders">>
      [] route = "POST /reviews/request" -> m = "POST" /\ path = <<"reviews", "request">>
      [] route = "POST /reviews/auto-request/config" ->
            m = "POST" /\ path = <<"reviews", "auto-request", "config">>
      [] route = "GET /reviews/auto-request/config" ->
            m = "GET" /\ path = <<"reviews", "auto-request", "config">>
      [] route = "GET /reviews/questions" -> m = "GET" /\ path = <<"reviews", "questions">>
      [] route = "POST /questions/:id/answer" -> m = "POST" /\ Pat3(path, "questions", "answer")
      [] route = "POST /reviews/bulk-update" -> m = "POST" /\ path = <<"reviews", "bulk-update">>
      [] route = "GET /financial/dashboard" -> m = "GET" /\ path = <<"financial", "dashboard">>
      [] route = "GET /financial/expenses" -> m = "GET" /\ path = <<"financial", "expenses">>
      [] route = "POST /financial/expenses" -> m = "POST" /\ path = <<"financial", "expenses">>
      [] route = "PATCH /financial/expenses/:id" ->
            m = "PATCH" /\ Pat3Id(path, "financial", "expenses")
      [] route = "DELETE /financial/expenses/:id" ->
            m = "DELETE" /\ Pat3Id(path, "financial", "expenses")
      [] route = "GET /financial/reports/profit-loss" ->
            m = "GET" /\ path = <<"financial", "reports", "profit-loss">>
      [] route = "GET /chat/conversations" -> m = "GET" /\ path = <<"chat", "conversations">>
      [] route = "GET /chat/conversations/:id" ->
            m = "GET" /\ Pat3Id(path, "chat", "conversations")
      [] route = "POST /chat/conversations/:id/messages" ->
            m = "POST" /\ Pat4(path, "chat", "conversations", "messages")
      [] route = "GET /support/tickets" -> m = "GET" /\ path = <<"support", "tickets">>
      [] route = "POST /support/tickets" -> m = "POST" /\ path = <<"support", "tickets">>
      [] route = "GET /support/tickets/:id" -> m = "GET" /\ Pat3Id(path, "support", "tickets")
      [] route = "POST /support/tickets/:id/messages" ->
            m = "POST" /\ Pat4(path, "support", "tickets", "messages")
      [] route = "POST /financial/payouts/instant" ->
            m = "POST" /\ path = <<"financial", "payouts", "instant">>
      [] route = "GET /financial/integrations" ->
            m = "GET" /\ path = <<"financial", "integrations">>
      [] route = "POST /financial/integrations/:id/connect" ->
            m = "POST" /\ Pat4(path, "financial", "integrations", "connect")
      [] route = "GET /financial/reports/tax" ->
            m = "GET" /\ path = <<"financial", "reports", "tax">>
      [] OTHER -> FALSE

\* The first route whose condition holds, "none" when the request falls through.
RECURSIVE FirstMatch(_, _, _)
FirstMatch(i, m, path) ==
    IF i > Len(RouteOrder) THEN "none"
    ELSE IF Matches(RouteOrder[i], m, path) THEN RouteOrder[i]
    ELSE FirstMatch(i + 1, m, path)

\* The routes of the paths the scenarios use, computed once; Route looks a
\* request up here and computes any other request's route.
CachedIds == {"1", "2", "3", "4", "none"}
CachedPaths ==
    {<<>>, <<"products">>, <<"social">>, <<"reviews">>, <<"reviews", "bulk-update">>,
     <<"reviews", "questions">>, <<"financial", "dashboard">>,
     <<"financial", "expenses">>, <<"financial", "reports", "profit-loss">>,
     <<"financial", "reports", "tax">>, <<"chat", "conversations">>,
     <<"support", "tickets">>}
    \cup {<<a, i>> : a \in {"products", "social"}, i \in CachedIds}
    \cup {<<a, i, c>> : a \in {"reviews", "questions"}, i \in CachedIds,
                        c \in {"status", "respond", "answer"}}
    \cup {<<a, b, i>> : a \in {"financial", "chat", "support"},
                        b \in {"expenses", "conversations", "tickets"}, i \in CachedIds}
    \cup {<<a, b, i, "messages">> : a \in {"chat", "support"},
                                    b \in {"conversations", "tickets"}, i \in CachedIds}
RouteCache == [x \in Methods \X CachedPaths |-> FirstMatch(1, x[1], x[2])]

Route(r) ==
    LET x == <<r.method, NormPath(r.pathname)>>
    IN  IF x \in DOMAIN RouteCache THEN RouteCache[x] ELSE FirstMatch(1, x[1], x[2])

\* The body of a request that carries no JSON text: `await req.json()` throws on it.
NoJson == [json |-> FALSE]
Parses(body) == body # NoJson

\* The routes whose handler starts by reading the body with req.json().
BodyRoutes ==
    {"POST /", "PUT /", "POST /products", "PUT /products/:id", "POST /social",
     "POST /reviews/:id/respond", "PATCH /reviews/:id/status",
     "POST /reviews/request", "POST /reviews/auto-request/config",
     "POST /questions/:id/answer", "POST /reviews/bulk-update",
     "POST /financial/expenses", "PATCH /financial/expenses/:id",
     "POST /chat/conversations/:id/messages", "POST /support/tickets",
     "POST /support/tickets/:id/messages"}

\* A request that reaches the handler of `route`: not a preflight, authenticated,
\* and past the handler's req.json() when it has one.
Enters(r, route) ==
    /\ r.method # "OPTIONS"
    /\ AuthUser(r.hdr) # {}
    /\ Route(r) = route
    /\ route \in BodyRoutes => Parses(r.body)

\* Requests arrive at an idle process; idle processes are interchangeable, so one
\* of them stands for all.
Idle == IF \E p \in Procs : pc[p] = "idle"
        THEN {CHOOSE p \in Procs : pc[p] = "idle"} ELSE {}

(***************************************************************************)
(* Steps                                                                   *)
(***************************************************************************)
\* The request ends with a response; `step` is where the handler was when it
\* returned ("idle": in its first step) and `seq` tells one response from the next.
Respond(p, r, status, success, error, data) ==
    /\ response' = [seq |-> 1 - response.seq, step |-> pc[p],
                    req |-> r, status |-> status, success |-> success,
                    error |-> error, data |-> data]
    /\ pc' = [pc EXCEPT ![p] = "idle"]
    /\ req' = [req EXCEPT ![p] = NoReq]
    /\ loc' = [loc EXCEPT ![p] = ""]
    /\ atArrival' = [atArrival EXCEPT ![p] = {}]
    /\ UNCHANGED ui

\* The sellers of the store that holds the product of question qid.
QuestionSellers(qid) ==
    {s.seller_id : s \in {t \in stores :
        \E q \in review_questions, x \in products :
            q.id = qid /\ x.id = q.product_id /\ t.id = x.store_id}}

\* The owners, on arrival, of the row a request addresses by id.
Owners(r) ==
    IF Matches("POST /questions/:id/answer", r.method, NormPath(r.pathname))
    THEN QuestionSellers(NormPath(r.pathname)[2])
    ELSE {}

\* The request is suspended at its next store call.
Suspend(p, r, label, local) ==
    /\ pc' = [pc EXCEPT ![p] = label]
    /\ req' = [req EXCEPT ![p] = r]
    /\ loc' = [loc EXCEPT ![p] = local]
    /\ atArrival' = [atArrival EXCEPT ![p] = IF pc[p] = "idle" THEN Owners(r) ELSE @]
    /\ UNCHANGED <<response, ui>>

\* Lines 1148-1154: a store call whose error the handler throws.
Throw(p, r) == Respond(p, r, 500, FALSE, "store error", {})

\* req.json() at the head of a handler throws on a body that is not JSON, and
\* the catch block answers (lines 1148-1154).
BodyRefused(p, r) ==
    /\ p \in Idle
    /\ r.method # "OPTIONS"
    /\ AuthUser(r.hdr) # {}
    /\ Route(r) \in BodyRoutes
    /\ ~Parses(r.body)
    /\ Throw(p, r)
    /\ UNCHANGED <<tables, nextId, now>>

\* Lines 14-17: the CORS preflight is answered before authentication, status
\* 200 with a null body (it carries no success field: success is FALSE here).
Preflight(p, r) ==
    /\ p \in Idle
    /\ r.method = "OPTIONS"
    /\ Respond(p, r, 200, FALSE, "", {})
    /\ UNCHANGED <<tables, nextId, now>>

\* Lines 27-43.
Unauthorized(p, r) ==
    /\ p \in Idle
    /\ r.method # "OPTIONS"
    /\ AuthUser(r.hdr) = {}
    /\ Respond(p, r, 401, FALSE, "Unauthorized", {})
    /\ UNCHANGED <<tables, nextId, now>>

\* Lines 1144-1147.
NotFound(p, r) ==
    /\ p \in Idle
    /\ Enters(r, "none")
    /\ Respond(p, r, 404, FALSE, "Not found", {})
    /\ UNCHANGED <<tables, nextId, now>>

(***************************************************************************)
(* Store                                                                   *)
(***************************************************************************)
StoresOf(u) == {s \in stores : s.seller_id = u}
StoresWithSlug(slug) == {s \in stores : s.slug = slug}

\* Lines 54-65.
GetStore(p, r) ==
    /\ p \in Idle
    /\ Enters(r, "GET /")
    /\ LET rows == StoresOf(UserOf(r))
           data == [store |-> One(rows),
                    social_accounts |->
                        {a \in social_accounts : \E s \in One(rows) : a.store_id = s.id}]
       IN  IF MaybeSingleError(rows) THEN Throw(p, r)
           ELSE Respond(p, r, 200, TRUE, "", data)
    /\ UNCHANGED <<tables, nextId, now>>

\* Lines 68-90: validation, then the existing-store check.
PostStoreExisting(p, r) ==
    /\ p \in Idle
    /\ Enters(r, "POST /")
    /\ LET existing == One(StoresOf(UserOf(r)))
       IN  IF ~Truthy(r.body, "name") \/ ~Truthy(r.body, "slug")
           THEN Respond(p, r, 400, FALSE, "Name and slug are required", {})
           ELSE IF existing # {}
           THEN Respond(p, r, 400, FALSE, "User already has a store", {})
           ELSE Suspend(p, r, "POST / slug", "")
    /\ UNCHANGED <<tables, nextId, now>>

\* Lines 92-104: the slug check.
PostStoreSlug(p) ==
    /\ pc[p] = "POST / slug"
    /\ LET slugExists == One(StoresWithSlug(req[p].body.slug))
       IN  IF slugExists # {}
           THEN Respond(p, req[p], 400, FALSE, "Slug already taken", {})
           ELSE Suspend(p, req[p], "POST / insert", "")
    /\ UNCHANGED <<tables, nextId, now>>

\* Lines 106-116: the insert.
PostStoreInsert(p) ==
    /\ pc[p] = "POST / insert"
    /\ Cardinality(stores) < MaxStores
    /\ LET store == [id |-> NewId("stores"), seller_id |-> UserOf(req[p]),
                     name |-> req[p].body.name, slug |-> req[p].body.slug,
                     bio |-> IF Has(req[p].body, "bio") THEN req[p].body.bio ELSE "",
                     status |-> "inactive", visibility |-> "PRIVATE",
                     updated_at |-> now]
       IN  /\ stores' = stores \cup {store}
           /\ nextId' = Bump("stores")
           /\ Respond(p, req[p], 201, TRUE, "", {store})
    /\ UNCHANGED <<products, social_accounts, product_reviews, review_questions,
                   review_answers, seller_expenses, transactions, messaging, now>>

\* An update that replaces the row: an absent bio is emptied.
StorePatchReplacing(s, body) ==
    [s EXCEPT !.name = IF Truthy(body, "name") THEN body.name ELSE @,
              !.slug = IF Truthy(body, "slug") THEN body.slug ELSE @,
              !.bio = IF Has(body, "bio") THEN body.bio ELSE "",
              !.visibility = IF Truthy(body, "visibility") THEN body.visibility ELSE @,
              !.status = IF Truthy(body, "status") THEN body.status ELSE @,
              !.updated_at = now]

\* Lines 126-134: the fields the update sets (logo is handled as bio is).
StorePatch(s, body) ==
    [s EXCEPT !.name = IF Truthy(body, "name") THEN body.name ELSE @,
              !.slug = IF Truthy(body, "slug") THEN body.slug ELSE @,
              !.bio = IF Has(body, "bio") THEN body.bio ELSE @,
              !.visibility = IF Truthy(body, "visibility") THEN body.visibility ELSE @,
              !.status = IF Truthy(body, "status") THEN body.status ELSE @,
              !.updated_at = now]

\* Lines 120-143.
PutStore(p, r) ==
    /\ p \in Idle
    /\ Enters(r, "PUT /")
    /\ LET rows == StoresOf(UserOf(r))
       IN  IF SingleError(rows)
           THEN Throw(p, r) /\ UNCHANGED stores
           ELSE /\ stores' = (stores \ rows) \cup {StorePatch(Row(rows), r.body)}
                /\ Respond(p, r, 200, TRUE, "", {StorePatch(Row(rows), r.body)})
    /\ UNCHANGED <<products, social_accounts, product_reviews, review_questions,
                   review_answers, seller_expenses, transactions, messaging, nextId, now>>

(***************************************************************************)
(* Products                                                                *)
(***************************************************************************)
\* The id of the caller's store as the lookup's `store` gives it, "" when null.
StoreIdOf(u) == IF One(StoresOf(u)) = {} THEN "" ELSE Row(StoresOf(u)).id

\* Lines 146-159: the store lookup.
GetProductsStore(p, r) ==
    /\ p \in Idle
    /\ Enters(r, "GET /products")
    /\ IF StoreIdOf(UserOf(r)) = ""
       THEN Respond(p, r, 200, TRUE, "", {})
       ELSE Suspend(p, r, "GET /products list", StoreIdOf(UserOf(r)))
    /\ UNCHANGED <<tables, nextId, now>>

\* Lines 161-171: the listing.
GetProductsList(p) ==
    /\ pc[p] = "GET /products list"
    /\ LET status == IF Truthy(req[p].query, "status") THEN req[p].query.status ELSE "all"
           rows == {x \in products :
                       x.store_id = loc[p] /\ (status = "all" \/ x.status = status)}
       IN  Respond(p, req[p], 200, TRUE, "", rows)
    /\ UNCHANGED <<tables, nextId, now>>

\* Lines 175-196: validation, then the store lookup.
PostProductStore(p, r) ==
    /\ p \in Idle
    /\ Enters(r, "POST /products")
    /\ IF ~Truthy(r.body, "name")
       THEN Respond(p, r, 400, FALSE, "Product name is required", {})
       ELSE IF StoreIdOf(UserOf(r)) = ""
       THEN Respond(p, r, 400, FALSE, "Create a store first", {})
       ELSE Suspend(p, r, "POST /products insert", StoreIdOf(UserOf(r)))
    /\ UNCHANGED <<tables, nextId, now>>

\* Lines 198-215: the insert.
PostProductInsert(p) ==
    /\ pc[p] = "POST /products insert"
    /\ nextId["products"] < MaxProducts
    /\ LET product == [id |-> NewId("products"), store_id |-> loc[p],
                       name |-> req[p].body.name,
                       price |-> IF Has(req[p].body, "price") THEN req[p].body.price ELSE 0,
                       status |-> "DRAFT", updated_at |-> now]
       IN  /\ products' = products \cup {product}
           /\ nextId' = Bump("products")
           /\ Respond(p, req[p], 201, TRUE, "", {product})
    /\ UNCHANGED <<stores, social_accounts, product_reviews, review_questions,
                   review_answers, seller_expenses, transactions, messaging, now>>

\* Lines 225-232: the fields the update sets (description and images are
\* handled as price is).
ProductPatch(x, body) ==
    [x EXCEPT !.name = IF Truthy(body, "name") THEN body.name ELSE @,
              !.price = IF Has(body, "price") THEN body.price ELSE @,
              !.status = IF Truthy(body, "status") THEN body.status ELSE @,
              !.updated_at = now]

\* Lines 223-235: the rows the update addresses.
ProductsToUpdate(u, productId) == {x \in products : x.id = productId}

\* Lines 219-241.
PutProduct(p, r) ==
    /\ p \in Idle
    /\ Enters(r, "PUT /products/:id")
    /\ LET rows == ProductsToUpdate(UserOf(r), AfterPrefix(NormPath(r.pathname)))
       IN  IF SingleError(rows)
           THEN Throw(p, r) /\ UNCHANGED products
           ELSE /\ products' = (products \ rows) \cup {ProductPatch(Row(rows), r.body)}
                /\ Respond(p, r, 200, TRUE, "", {ProductPatch(Row(rows), r.body)})
    /\ UNCHANGED <<stores, social_accounts, product_reviews, review_questions,
                   review_answers, seller_expenses, transactions, messaging, nextId, now>>

\* Line 247: the rows the delete addresses.
ProductsToDelete(u, productId) == {x \in products : x.id = productId}

\* Lines 244-253.
DeleteProduct(p, r) ==
    /\ p \in Idle
    /\ Enters(r, "DELETE /products/:id")
    /\ products' = products \ ProductsToDelete(UserOf(r), AfterPrefix(NormPath(r.pathname)))
    /\ Respond(p, r, 200, TRUE, "", {})
    /\ UNCHANGED <<stores, social_accounts, product_reviews, review_questions,
                   review_answers, seller_expenses, transactions, messaging, nextId, now>>

(***************************************************************************)
(* Social accounts                                                         *)
(***************************************************************************)
\* Lines 256-267: the store lookup.
GetSocialStore(p, r) ==
    /\ p \in Idle
    /\ Enters(r, "GET /social")
    /\ IF StoreIdOf(UserOf(r)) = ""
       THEN Respond(p, r, 200, TRUE, "", {})
       ELSE Suspend(p, r, "GET /social list", StoreIdOf(UserOf(r)))
    /\ UNCHANGED <<tables, nextId, now>>

\* Lines 269-277: the listing.
GetSocialList(p) ==
    /\ pc[p] = "GET /social list"
    /\ Respond(p, req[p], 200, TRUE, "", {a \in social_accounts : a.store_id = loc[p]})
    /\ UNCHANGED <<tables, nextId, now>>

\* Lines 281-302: validation, then the store lookup.
PostSocialStore(p, r) ==
    /\ p \in Idle
    /\ Enters(r, "POST /social")
    /\ IF ~Truthy(r.body, "platform") \/ ~Truthy(r.body, "pageUrl")
       THEN Respond(p, r, 400, FALSE, "Platform and pageUrl are required", {})
       ELSE IF StoreIdOf(UserOf(r)) = ""
       THEN Respond(p, r, 400, FALSE, "Create a store first", {})
       ELSE Suspend(p, r, "POST /social insert", StoreIdOf(UserOf(r)))
    /\ UNCHANGED <<tables, nextId, now>>

\* Lines 304-314: the insert.
PostSocialInsert(p) ==
    /\ pc[p] = "POST /social insert"
    /\ nextId["social_accounts"] < MaxSocial
    /\ LET account == [id |-> NewId("social_accounts"), store_id |-> loc[p],
                       platform |-> req[p].body.platform,
                       page_url |-> req[p].body.pageUrl]
       IN  /\ social_accounts' = social_accounts \cup {account}
           /\ nextId' = Bump("social_accounts")
           /\ Respond(p, req[p], 201, TRUE, "", {account})
    /\ UNCHANGED <<stores, products, product_reviews, review_questions,
                   review_answers, seller_expenses, transactions, messaging, now>>

\* Lines 318-327.
DeleteSocial(p, r) ==
    /\ p \in Idle
    /\ Enters(r, "DELETE /social/:id")
    /\ social_accounts' =
          {a \in social_accounts : a.id # AfterPrefix(NormPath(r.pathname))}
    /\ Respond(p, r, 200, TRUE, "", {})
    /\ UNCHANGED <<stores, products, product_reviews, review_questions,
                   review_answers, seller_expenses, transactions, messaging, nextId, now>>

(***************************************************************************)
(* Reviews                                                                 *)
(***************************************************************************)
\* published_at: null.
Null == -1

DefaultPage == 1
DefaultLimit == 50
MaxLimit == 100

Min(a, b) == IF a <= b THEN a ELSE b
\* Math.ceil(a / b) for a >= 0, b > 0.
Ceil(a, b) == (a + b - 1) \div b

\* Lines 335-336, 718-719: parseInt(... || "1") and
\* Math.min(parseInt(... || "50"), 100); the parameters are integers here.
PageOf(query) == IF Has(query, "page") THEN query.page ELSE DefaultPage
LimitOf(query) == Min(IF Has(query, "limit") THEN query.limit ELSE DefaultLimit, MaxLimit)

\* Lines 362 and 741: Math.ceil(total / limit) as a JavaScript number:
\* 0 / 0 is NaN and n / 0 is Infinity.
Pages(total, limit) ==
    IF limit > 0 THEN [kind |-> "number", value |-> Ceil(total, limit)]
    ELSE IF limit < 0 THEN [kind |-> "number", value |-> -(total \div (-limit))]
    ELSE IF total = 0 THEN [kind |-> "NaN", value |-> 0]
    ELSE [kind |-> "Infinity", value |-> 0]

\* Lines 351 and 730-731: range(from, to) asks the store for offset `from` and
\* `to - from + 1` rows; the store refuses a negative offset or row count.
RangeRefused(page, limit) == (page - 1) * limit < 0 \/ limit < 0

Range(seq) == {seq[i] : i \in DOMAIN seq}

\* Lines 338-349: the caller's reviews the listing selects, latest first.
ReviewsListed(u, query) ==
    {v \in product_reviews :
        /\ v.seller_id = u
        /\ (Truthy(query, "status") /\ query.status # "all") => v.status = query.status}
ReviewPosition(rows, v) ==
    Cardinality({x \in rows : x.created_at > v.created_at})

\* Lines 330-366.  A request for no rows (limit 0) is answered with no rows or
\* refused, as the store decides.
GetReviews(p, r) ==
    /\ p \in Idle
    /\ Enters(r, "GET /reviews")
    /\ LET page == PageOf(r.query)
           limit == LimitOf(r.query)
           rows == ReviewsListed(UserOf(r), r.query)
           shown == {v \in rows : /\ ReviewPosition(rows, v) >= (page - 1) * limit
                                  /\ ReviewPosition(rows, v) <= page * limit - 1}
       IN  \/ /\ ~RangeRefused(page, limit)
              /\ Respond(p, r, 200, TRUE, "",
                         [reviews |-> shown,
                          pagination |-> [page |-> page, limit |-> limit,
                                          total |-> Cardinality(rows),
                                          pages |-> Pages(Cardinality(rows), limit)]])
           \/ /\ RangeRefused(page, limit) \/ limit = 0
              /\ Throw(p, r)
    /\ UNCHANGED <<tables, nextId, now>>

\* A moderation that publishes whatever the new status.
ModeratedAlwaysPublished(v, newStatus) ==
    [v EXCEPT !.status = newStatus,
              !.is_published = TRUE,
              !.published_at = IF newStatus = "approved" THEN now ELSE Null,
              !.moderation_status = "reviewed"]

\* Lines 455-461 and 646-652: the fields a moderation sets.
Moderated(v, newStatus) ==
    [v EXCEPT !.status = newStatus,
              !.is_published = (newStatus = "approved"),
              !.published_at = IF newStatus = "approved" THEN now ELSE Null,
              !.moderation_status = "reviewed"]

\* Lines 453-465: the rows the status update addresses.
ReviewsToModerate(u, reviewId) ==
    {v \in product_reviews : v.id = reviewId /\ v.seller_id = u}

\* Lines 444-476.
PatchReviewStatus(p, r) ==
    /\ p \in Idle
    /\ Enters(r, "PATCH /reviews/:id/status")
    /\ LET newStatus == IF Has(r.body, "status") THEN r.body.status ELSE ""
           rows == ReviewsToModerate(UserOf(r), NormPath(r.pathname)[2])
       IN  IF newStatus \notin {"approved", "rejected"}
           THEN /\ Respond(p, r, 400, FALSE, "Status must be approved or rejected", {})
                /\ UNCHANGED product_reviews
           ELSE IF SingleError(rows)
           THEN Throw(p, r) /\ UNCHANGED product_reviews
           ELSE /\ product_reviews' =
                      (product_reviews \ rows) \cup {Moderated(Row(rows), newStatus)}
                /\ Respond(p, r, 200, TRUE, "", {Moderated(Row(rows), newStatus)})
    /\ UNCHANGED <<stores, products, social_accounts, review_questions, review_answers,
                   seller_expenses, transactions, messaging, nextId, now>>

\* Lines 653-654: the rows the bulk update addresses.
BulkTargetsAnySeller(u, review_ids) ==
    {v \in product_reviews : v.id \in Range(review_ids)}

BulkTargets(u, review_ids) ==
    {v \in product_reviews : v.seller_id = u /\ v.id \in Range(review_ids)}

\* Line 656: the count the response carries.
BulkUpdated(u, review_ids) == Len(review_ids)

\* Lines 636-659.
BulkUpdateReviews(p, r) ==
    /\ p \in Idle
    /\ Enters(r, "POST /reviews/bulk-update")
    /\ LET newStatus == IF Has(r.body, "status") THEN r.body.status ELSE ""
       IN  IF ~Has(r.body, "review_ids") \/ newStatus \notin {"approved", "rejected"}
           THEN /\ Respond(p, r, 400, FALSE, "review_ids array and status required", {})
                /\ UNCHANGED product_reviews
           ELSE LET rows == BulkTargets(UserOf(r), r.body.review_ids)
                IN  /\ product_reviews' =
                          (product_reviews \ rows)
                              \cup {Moderated(v, newStatus) : v \in rows}
                    /\ Respond(p, r, 200, TRUE, "",
                               [updated |-> BulkUpdated(UserOf(r), r.body.review_ids)])
    /\ UNCHANGED <<stores, products, social_accounts, review_questions, review_answers,
                   seller_expenses, transactions, messaging, nextId, now>>

(***************************************************************************)
(* Questions.  A text is modelled by its length.                           *)
(***************************************************************************)
MinAnswerLen == 5
MaxAnswerLen == 2000
MaxAnswers == 2      \* answers ever inserted

\* text.slice(0, n)
Slice(len, n) == IF len <= n THEN len ELSE n

\* Line 605: !answer || answer.length < 5
AnswerInvalid(body) ==
    ~Has(body, "answer") \/ body.answer = 0 \/ body.answer < MinAnswerLen

\* Lines 602-618: validation, then the question lookup.
AnswerQuestion(p, r) ==
    /\ p \in Idle
    /\ Enters(r, "POST /questions/:id/answer")
    /\ LET q == One({x \in review_questions : x.id = NormPath(r.pathname)[2]})
       IN  IF AnswerInvalid(r.body)
           THEN Respond(p, r, 400, FALSE, "Answer min 5 chars", {})
           ELSE IF q = {}
           THEN Respond(p, r, 404, FALSE, "Question not found", {})
           ELSE Suspend(p, r, "answer product", Row(q).product_id)
    /\ UNCHANGED <<tables, nextId, now>>

\* Line 619: the product lookup; loc becomes product?.store_id.
AnswerProduct(p) ==
    /\ pc[p] = "answer product"
    /\ LET product == One({x \in products : x.id = loc[p]})
       IN  Suspend(p, req[p], "answer store",
                   IF product = {} THEN "" ELSE Row(product).store_id)
    /\ UNCHANGED <<tables, nextId, now>>

\* Line 621: !store || store.seller_id !== userId
NotSellerIgnoringSeller(store, userId) == store = {}

NotSeller(store, userId) == store = {} \/ Row(store).seller_id # userId

\* Lines 620-623: the store lookup and the ownership check.
AnswerStore(p) ==
    /\ pc[p] = "answer store"
    /\ LET store == One({s \in stores : s.id = loc[p]})
       IN  IF NotSeller(store, UserOf(req[p]))
           THEN Respond(p, req[p], 403, FALSE, "Unauthorized", {})
           ELSE Suspend(p, req[p], "answer insert", "")
    /\ UNCHANGED <<tables, nextId, now>>

\* Lines 624-629: the insert; loc becomes the id of the inserted answer.
AnswerInsert(p) ==
    /\ pc[p] = "answer insert"
    /\ nextId["review_answers"] < MaxAnswers
    /\ review_answers' = review_answers \cup
          {[id |-> NewId("review_answers"), question_id |-> NormPath(req[p].pathname)[2],
            answerer_id |-> UserOf(req[p]), answerer_type |-> "seller",
            answer |-> Slice(req[p].body.answer, MaxAnswerLen), is_official |-> TRUE]}
    /\ nextId' = Bump("review_answers")
    /\ Suspend(p, req[p], "answer flag", NewId("review_answers"))
    /\ UNCHANGED <<stores, products, social_accounts, product_reviews, review_questions,
                   seller_expenses, transactions, messaging, now>>

\* Lines 630-633: the flag update.
AnswerFlag(p) ==
    /\ pc[p] = "answer flag"
    /\ review_questions' =
          {IF q.id = NormPath(req[p].pathname)[2] THEN [q EXCEPT !.is_answered = TRUE]
           ELSE q : q \in review_questions}
    /\ Respond(p, req[p], 200, TRUE, "", {a \in review_answers : a.id = loc[p]})
    /\ UNCHANGED <<stores, products, social_accounts, product_reviews, review_answers,
                   seller_expenses, transactions, messaging, nextId, now>>

(***************************************************************************)
(* Financial.  A date is a day number; amounts are whole numbers.          *)
(***************************************************************************)
MaxExpenses == 1     \* expenses ever created
RECURSIVE Sum(_, _)
\* rows.reduce((s, x) => s + f(x), 0), f given as a function on rows.
Sum(rows, f) ==
    IF rows = {} THEN 0
    ELSE LET x == CHOOSE y \in rows : TRUE IN f[x] + Sum(rows \ {x}, f)

\* Lines 664-666 and 672-673, 686-687: the window of a period ending today.
PeriodDays(period) ==
    IF period = "7d" THEN 7 ELSE IF period = "90d" THEN 90
    ELSE IF period = "1y" THEN 365 ELSE 30
InWindow(day, startDate, endDate) == startDate <= day /\ day <= endDate

\* Lines 682-687, 724-725: the caller's expenses a read sees.
ActiveExpensesAnyStatus(u) == {e \in seller_expenses : e.seller_id = u}

ActiveExpenses(u) == {e \in seller_expenses : e.seller_id = u /\ e.status = "active"}

\* Lines 668-679: the transaction sums.
TxRows(u, startDate, endDate) ==
    {t \in transactions : t.seller_id = u /\ InWindow(t.created_at, startDate, endDate)}
\* (t.status || "").toLowerCase(), on the spellings the scenarios use.
Lower(status) ==
    IF status = "COMPLETED" THEN "completed"
    ELSE IF status = "Refunded" THEN "refunded" ELSE status
Completed(rows) == {t \in rows : Lower(t.status) = "completed"}
Refunded(rows) == {t \in rows : Lower(t.status) = "refunded"}
RevenueFromAmount(rows) == Sum(Completed(rows), [t \in Completed(rows) |-> t.amount])

Revenue(rows) ==
    Sum(Completed(rows),
        [t \in Completed(rows) |-> IF t.seller_payout # Null THEN t.seller_payout
                                   ELSE t.amount])
Refunds(rows) == Sum(Refunded(rows), [t \in Refunded(rows) |-> t.amount])
Commission(rows) == Sum(Completed(rows), [t \in Completed(rows) |-> t.platform_fee])
ExpenseTotal(rows) == Sum(rows, [e \in rows |-> e.amount])

\* The ratio computed without the guard on revenue.
ProfitMarginUnguarded(netProfit, revenue) ==
    IF revenue # 0
    THEN [text |-> "fixed2", hundredths |-> (netProfit * 10000) \div revenue]
    ELSE [text |-> IF netProfit = 0 THEN "NaN" ELSE "Infinity", hundredths |-> 0]

\* Line 692: ((netProfit / revenue) * 100).toFixed(2), in hundredths, or "0".
ProfitMargin(netProfit, revenue) ==
    IF revenue > 0
    THEN [text |-> "fixed2",
          hundredths |-> IF netProfit >= 0
                         THEN (netProfit * 20000 + revenue) \div (2 * revenue)
                         ELSE -(((-netProfit) * 20000 + revenue) \div (2 * revenue))]
    ELSE [text |-> "0", hundredths |-> 0]

\* Lines 662-712.  The transactions read is of a table no handler writes, so
\* the handler's two reads are taken as one step.
GetDashboard(p, r) ==
    /\ p \in Idle
    /\ Enters(r, "GET /financial/dashboard")
    /\ LET period == IF Truthy(r.query, "period") THEN r.query.period ELSE "30d"
           startDate == now - PeriodDays(period)
           txRows == TxRows(UserOf(r), startDate, now)
           expenseRows == {e \in ActiveExpenses(UserOf(r)) :
                              InWindow(e.expense_date, startDate, now)}
           revenue == Revenue(txRows)
           refunds == Refunds(txRows)
           expenses == ExpenseTotal(expenseRows)
           grossProfit == revenue - refunds
           netProfit == grossProfit - expenses
       IN  Respond(p, r, 200, TRUE, "",
                   [revenue |-> revenue, refunds |-> refunds,
                    gross_profit |-> grossProfit, commission |-> Commission(txRows),
                    payment_fees |-> 0, expenses |-> expenses,
                    net_revenue |-> grossProfit, net_profit |-> netProfit,
                    profit_margin |-> ProfitMargin(netProfit, revenue)])
    /\ UNCHANGED <<tables, nextId, now>>

\* Lines 838-844, 848-852: the caller's active expenses of the window and
\* their sums by category.
ExpensesInWindow(u, startDate, endDate) ==
    {e \in ActiveExpenses(u) : InWindow(e.expense_date, startDate, endDate)}
ByCategory(rows) ==
    [c \in {e.category : e \in rows} |->
        ExpenseTotal({e \in rows : e.category = c})]

\* Lines 825-877: the report over the caller's rows of a window.
ProfitLoss(u, startDate, endDate) ==
    LET txRows == TxRows(u, startDate, endDate)
        expenseRows == ExpensesInWindow(u, startDate, endDate)
        revenue == Revenue(txRows)
        refunds == Refunds(txRows)
        commission == Commission(txRows)
        expenses == ExpenseTotal(expenseRows)
        grossProfit == revenue - refunds
        netProfit == grossProfit - expenses
    IN  [period |-> [start |-> startDate, end |-> endDate],
         revenue |-> [gross_sales |-> revenue, refunds |-> refunds,
                      net_sales |-> grossProfit],
         gross_profit |-> grossProfit,
         expenses |-> [platform_commission |-> commission,
                       payment_processing |-> 0,
                       operating_expenses |-> expenses,
                       total_expenses |-> commission + expenses,
                       by_category |-> ByCategory(expenseRows)],
         net_profit |-> netProfit,
         profit_margin |-> ProfitMargin(netProfit, revenue)]

\* Lines 821-878.  As in the dashboard, the two reads are one step.
GetProfitLoss(p, r) ==
    /\ p \in Idle
    /\ Enters(r, "GET /financial/reports/profit-loss")
    /\ LET startDate == IF Has(r.query, "start_date") THEN r.query.start_date
                        ELSE now - 30
           endDate == IF Has(r.query, "end_date") THEN r.query.end_date ELSE now
       IN  Respond(p, r, 200, TRUE, "", ProfitLoss(UserOf(r), startDate, endDate))
    /\ UNCHANGED <<tables, nextId, now>>

\* Dates are day numbers; a year has 365 days.  The first day of each month
\* within its year, and the month's length.
DaysPerYear == 365
MonthStart == <<0, 31, 59, 90, 120, 151, 181, 212, 243, 273, 304, 334>>
MonthLength == <<31, 28, 31, 30, 31, 30, 31, 31, 30, 31, 30, 31>>
YearOf(day) == day \div DaysPerYear

\* Lines 1095-1104: the report period.  The last day of a quarter is written
\* as day 30 (quarter 2) or 31 of its last month; `valid` says whether that
\* month has such a day (the store refuses a date that does not exist).
TaxPeriod(year, quarter) ==
    IF quarter \in {"1", "2", "3", "4"}
    THEN LET q == CHOOSE n \in 1..4 : ToString(n) = quarter
             lastDay == IF q = 2 THEN 30 ELSE 31
         IN  [start |-> year * DaysPerYear + MonthStart[(q - 1) * 3 + 1],
              end |-> year * DaysPerYear + MonthStart[q * 3] + lastDay - 1,
              valid |-> lastDay <= MonthLength[q * 3]]
    ELSE [start |-> year * DaysPerYear, end |-> year * DaysPerYear + DaysPerYear - 1,
          valid |-> TRUE]

\* The income before refunds are taken off.
TaxableIncomeBeforeRefunds(totalSales, totalRefunds, totalExpenses) ==
    totalSales - totalExpenses

\* Line 1127.
TaxableIncome(totalSales, totalRefunds, totalExpenses) ==
    totalSales - totalRefunds - totalExpenses

\* Lines 1091-1142.  A read the store refuses yields no rows (its error is
\* not looked at: lines 1106 and 1118 keep `data` only).
GetTaxReport(p, r) ==
    /\ p \in Idle
    /\ Enters(r, "GET /financial/reports/tax")
    /\ LET year == IF Has(r.query, "year") THEN r.query.year ELSE YearOf(now)
           quarter == IF Truthy(r.query, "quarter") THEN r.query.quarter ELSE ""
           period == TaxPeriod(year, quarter)
           txRows == IF period.valid
                     THEN TxRows(UserOf(r), period.start, period.end) ELSE {}
           expenseRows == IF period.valid
                          THEN ExpensesInWindow(UserOf(r), period.start, period.end)
                          ELSE {}
           totalSales == Revenue(txRows)
           totalRefunds == Refunds(txRows)
           totalExpenses == ExpenseTotal(expenseRows)
       IN  Respond(p, r, 200, TRUE, "",
                   [report_type |-> IF quarter # "" THEN "quarterly" ELSE "annual",
                    year |-> year,
                    quarter |-> quarter,
                    total_sales |-> totalSales,
                    total_refunds |-> totalRefunds,
                    total_expenses |-> totalExpenses,
                    taxable_income |->
                        TaxableIncome(totalSales, totalRefunds, totalExpenses),
                    status |-> "draft"])
    /\ UNCHANGED <<tables, nextId, now>>

\* The position of a row in the listing: by expense_date, latest first (rows
\* of one date in the store's order, here by id).
Before(a, b) ==
    \/ a.expense_date > b.expense_date
    \/ /\ a.expense_date = b.expense_date
       /\ IdNumber("seller_expenses", a.id) < IdNumber("seller_expenses", b.id)
Position(rows, e) == Cardinality({x \in rows : Before(x, e)})

\* Lines 714-748.  A request for no rows (limit 0) is answered with no rows or
\* refused, as the store decides.
GetExpenses(p, r) ==
    /\ p \in Idle
    /\ Enters(r, "GET /financial/expenses")
    /\ LET page == PageOf(r.query)
           limit == LimitOf(r.query)
           rows == {e \in ActiveExpenses(UserOf(r)) :
                       /\ Truthy(r.query, "category") => e.category = r.query.category
                       /\ Has(r.query, "start_date") => e.expense_date >= r.query.start_date
                       /\ Has(r.query, "end_date") => e.expense_date <= r.query.end_date}
           shown == {e \in rows : /\ Position(rows, e) >= (page - 1) * limit
                                  /\ Position(rows, e) <= page * limit - 1}
       IN  \/ /\ ~RangeRefused(page, limit)
              /\ Respond(p, r, 200, TRUE, "",
                         [expenses |-> shown,
                          pagination |-> [page |-> page, limit |-> limit,
                                          total |-> Cardinality(rows),
                                          pages |-> Pages(Cardinality(rows), limit)]])
           \/ /\ RangeRefused(page, limit) \/ limit = 0
              /\ Throw(p, r)
    /\ UNCHANGED <<tables, nextId, now>>

\* Lines 750-777.  amount is falsy when absent or 0; a new row is active (the
\* table's default, which the reads at lines 685 and 725 select).
PostExpense(p, r) ==
    /\ p \in Idle
    /\ Enters(r, "POST /financial/expenses")
    /\ IF \/ ~Has(r.body, "amount") \/ r.body.amount = 0
          \/ ~Truthy(r.body, "category") \/ ~Truthy(r.body, "description")
          \/ ~Has(r.body, "expense_date")
       THEN /\ Respond(p, r, 400, FALSE,
                       "amount, category, description, expense_date required", {})
            /\ UNCHANGED <<seller_expenses, nextId>>
       ELSE /\ nextId["seller_expenses"] < MaxExpenses
            /\ LET e == [id |-> NewId("seller_expenses"), seller_id |-> UserOf(r),
                         amount |-> r.body.amount, category |-> r.body.category,
                         expense_date |-> r.body.expense_date, status |-> "active",
                         updated_at |-> now]
               IN  /\ seller_expenses' = seller_expenses \cup {e}
                   /\ nextId' = Bump("seller_expenses")
                   /\ Respond(p, r, 201, TRUE, "", {e})
    /\ UNCHANGED <<stores, products, social_accounts, product_reviews, review_questions,
                   review_answers, transactions, messaging, now>>

\* Lines 785-790: the fields the update sets (description and vendor_name are
\* handled as category and amount are).
ExpensePatch(e, body) ==
    [e EXCEPT !.amount = IF Has(body, "amount") THEN body.amount ELSE @,
              !.category = IF Truthy(body, "category") THEN body.category ELSE @,
              !.expense_date = IF Has(body, "expense_date") THEN body.expense_date ELSE @,
              !.updated_at = now]

\* Lines 792-793, 813-814: the rows an update by id addresses.
ExpensesById(u, expenseId) ==
    {e \in seller_expenses : e.id = expenseId /\ e.seller_id = u}

\* Lines 779-806.
PatchExpense(p, r) ==
    /\ p \in Idle
    /\ Enters(r, "PATCH /financial/expenses/:id")
    /\ LET rows == ExpensesById(UserOf(r), NormPath(r.pathname)[3])
       IN  IF SingleError(rows)
           THEN Throw(p, r) /\ UNCHANGED seller_expenses
           ELSE /\ seller_expenses' =
                      (seller_expenses \ rows) \cup {ExpensePatch(Row(rows), r.body)}
                /\ Respond(p, r, 200, TRUE, "", {ExpensePatch(Row(rows), r.body)})
    /\ UNCHANGED <<stores, products, social_accounts, product_reviews, review_questions,
                   review_answers, transactions, messaging, nextId, now>>

\* Lines 808-819.
DeleteExpense(p, r) ==
    /\ p \in Idle
    /\ Enters(r, "DELETE /financial/expenses/:id")
    /\ LET rows == ExpensesById(UserOf(r), NormPath(r.pathname)[3])
       IN  seller_expenses' =
              (seller_expenses \ rows) \cup {[e EXCEPT !.status = "deleted", !.updated_at = now] : e \in rows}
    /\ Respond(p, r, 200, TRUE, "", {})
    /\ UNCHANGED <<stores, products, social_accounts, product_reviews, review_questions,
                   review_answers, transactions, messaging, nextId, now>>

(***************************************************************************)
(* Live chat and support.  A timestamp is a reading of the clock; a        *)
(* message row's created_at is the store's clock when it is inserted.      *)
(***************************************************************************)
MaxMessageLen == 2000
MaxSupportMessageLen == 5000
MaxMessages == 2     \* messages ever inserted, per table

\* Lines 925-930: the conversation lookup.
ConversationsOf(u, convId) ==
    {c \in chat_conversations : c.id = convId /\ c.seller_id = u}

\* The messages of a table posted so far, inserted or about to be.
Posted(table, label) == nextId[table] + Cardinality({q \in Procs : pc[q] = label})

\* Lines 916-933: validation, then the conversation lookup.
PostChatMessage(p, r) ==
    /\ p \in Idle
    /\ Posted("chat_messages", "chat insert") < MaxMessages
    /\ Enters(r, "POST /chat/conversations/:id/messages")
    /\ LET convo == One(ConversationsOf(UserOf(r), NormPath(r.pathname)[3]))
       IN  IF ~Has(r.body, "message") \/ r.body.message = 0
           THEN Respond(p, r, 400, FALSE, "message required", {})
           ELSE IF convo = {}
           THEN Respond(p, r, 404, FALSE, "Not found", {})
           ELSE Suspend(p, r, "chat insert", "")
    /\ UNCHANGED <<tables, nextId, now>>

\* Lines 934-946: the insert (the profile lookup before it reads a table this
\* function never writes, and gives the sender's name only).
ChatInsert(p) ==
    /\ pc[p] = "chat insert"
    /\ nextId["chat_messages"] < MaxMessages
    /\ chat_messages' = chat_messages \cup
          {[id |-> NewId("chat_messages"), conversation_id |-> NormPath(req[p].pathname)[3],
            sender_id |-> UserOf(req[p]), sender_type |-> "seller",
            message |-> Slice(req[p].body.message, MaxMessageLen), created_at |-> now]}
    /\ nextId' = Bump("chat_messages")
    /\ Suspend(p, req[p], "chat stamp", [msg |-> NewId("chat_messages"), at |-> Null])
    /\ UNCHANGED <<stores, products, social_accounts, product_reviews, review_questions,
                   review_answers, seller_expenses, transactions, chat_conversations,
                   support_tickets, support_messages, now>>

\* Line 949: the handler resumes and reads its clock, new Date(), for the
\* update it is about to send.
ChatStamp(p) ==
    /\ pc[p] = "chat stamp"
    /\ Suspend(p, req[p], "chat update", [loc[p] EXCEPT !.at = now])
    /\ UNCHANGED <<tables, nextId, now>>

\* The update that leaves the timestamp as it is.
StampedUnchanged(rows, convId, at) == rows

\* Lines 947-950: the rows after the update, addressed by id alone.
Stamped(rows, convId, at) ==
    {IF c.id = convId THEN [c EXCEPT !.last_message_at = at] ELSE c : c \in rows}

\* Lines 947-955: the store applies the update; the response.
ChatUpdate(p) ==
    /\ pc[p] = "chat update"
    /\ chat_conversations' =
          Stamped(chat_conversations, NormPath(req[p].pathname)[3], loc[p].at)
    /\ Respond(p, req[p], 201, TRUE, "", {m \in chat_messages : m.id = loc[p].msg})
    /\ UNCHANGED <<stores, products, social_accounts, product_reviews, review_questions,
                   review_answers, seller_expenses, transactions, chat_messages,
                   support_tickets, support_messages, nextId, now>>

\* Lines 1037-1042: the ticket lookup.
TicketsOf(u, ticketId) ==
    {t \in support_tickets : t.id = ticketId /\ t.user_id = u}

\* Lines 1028-1045: validation, then the ticket lookup.
PostSupportMessage(p, r) ==
    /\ p \in Idle
    /\ Posted("support_messages", "support insert") < MaxMessages
    /\ Enters(r, "POST /support/tickets/:id/messages")
    /\ LET ticket == One(TicketsOf(UserOf(r), NormPath(r.pathname)[3]))
       IN  IF ~Has(r.body, "message") \/ r.body.message = 0
           THEN Respond(p, r, 400, FALSE, "message required", {})
           ELSE IF ticket = {}
           THEN Respond(p, r, 404, FALSE, "Not found", {})
           ELSE Suspend(p, r, "support insert", "")
    /\ UNCHANGED <<tables, nextId, now>>

\* Lines 1046-1051: the insert.
SupportInsert(p) ==
    /\ pc[p] = "support insert"
    /\ nextId["support_messages"] < MaxMessages
    /\ support_messages' = support_messages \cup
          {[id |-> NewId("support_messages"), ticket_id |-> NormPath(req[p].pathname)[3],
            sender_id |-> UserOf(req[p]), is_staff |-> FALSE,
            message |-> Slice(req[p].body.message, MaxSupportMessageLen),
            created_at |-> now]}
    /\ nextId' = Bump("support_messages")
    /\ Suspend(p, req[p], "support stamp", [msg |-> NewId("support_messages"), at |-> Null])
    /\ UNCHANGED <<stores, products, social_accounts, product_reviews, review_questions,
                   review_answers, seller_expenses, transactions, chat_conversations,
                   chat_messages, support_tickets, now>>

\* Line 1052: the handler resumes and reads its clock for the update.
SupportStamp(p) ==
    /\ pc[p] = "support stamp"
    /\ Suspend(p, req[p], "support update", [loc[p] EXCEPT !.at = now])
    /\ UNCHANGED <<tables, nextId, now>>

\* Line 1052: the rows after the update, addressed by id alone.
Touched(rows, ticketId, at) ==
    {IF t.id = ticketId THEN [t EXCEPT !.updated_at = at] ELSE t : t \in rows}

\* Lines 1052-1056: the store applies the update; the response.
SupportUpdate(p) ==
    /\ pc[p] = "support update"
    /\ support_tickets' =
          Touched(support_tickets, NormPath(req[p].pathname)[3], loc[p].at)
    /\ Respond(p, req[p], 201, TRUE, "", {m \in support_messages : m.id = loc[p].msg})
    /\ UNCHANGED <<stores, products, social_accounts, product_reviews, review_questions,
                   review_answers, seller_expenses, transactions, chat_conversations,
                   chat_messages, support_messages, nextId, now>>

\* Time passes.
MaxTime == 1
Tick ==
    /\ now < MaxTime
    /\ now' = now + 1
    /\ UNCHANGED <<tables, nextId, pc, req, loc, atArrival, response, ui>>

(***************************************************************************)
(* The payment callback page (src/pages/PaymentCallbackPage.tsx).  The     *)
(* page is its React state, the effect that runs after the first render,   *)
(* the verification request in flight, the redirect timer and the route    *)
(* the browser is on.                                                      *)
(***************************************************************************)
\* Everything outside the web client.
server == <<tables, nextId, now, pc, req, loc, atArrival, response>>

\* Lines 9-15: the page as first rendered for a callback URL, with the
\* session's pending link id.
Rendered(reference, trxref, paymentType, pending) ==
    [reference |-> reference, trxref |-> trxref, paymentType |-> paymentType,
     pendingPaymentLinkId |-> pending,
     status |-> "verifying", message |-> "",
     effect |-> "pending", posts |-> 0, fetch |-> "none", verified |-> FALSE,
     timer |-> "none", linkId |-> "", location |-> [path |-> "/payment/callback"]]

\* Line 12: reference || trxref
Ref(page) == IF page.reference # "" THEN page.reference ELSE page.trxref

\* Lines 17-30: the effect.  Without a reference it goes home; for a wallet
\* top-up it goes to the buyer page; otherwise verifyPayment posts the reference
\* (lines 34-38).
RunEffect ==
    /\ callbackPage.status # "closed"
    /\ callbackPage.effect = "pending"
    /\ callbackPage' =
          IF Ref(callbackPage) = ""
          THEN [callbackPage EXCEPT !.effect = "done", !.location = [path |-> "/"]]
          ELSE IF callbackPage.paymentType = "topup"
          THEN [callbackPage EXCEPT
                  !.effect = "done",
                  !.location = [path |-> "/buyer", payment |-> "success",
                                reference |-> Ref(callbackPage)]]
          ELSE [callbackPage EXCEPT !.effect = "done", !.posts = @ + 1,
                                    !.fetch = "pending"]
    /\ UNCHANGED <<server, tabs>>

\* What the verification request can come back with: a result with success, a
\* result without it (with or without an error text), or a failure of the
\* request or of response.json().
VerifyOutcomes ==
    {[kind |-> "result", success |-> TRUE, error |-> ""],
     [kind |-> "result", success |-> FALSE, error |-> "declined"],
     [kind |-> "result", success |-> FALSE, error |-> ""],
     [kind |-> "throws", success |-> FALSE, error |-> ""]}

\* Lines 39-62: the request comes back.
VerifyResponds(outcome) ==
    /\ callbackPage.status # "closed"
    /\ callbackPage.fetch = "pending"
    /\ callbackPage' =
          IF outcome.kind = "throws"
          THEN [callbackPage EXCEPT
                  !.fetch = "done", !.status = "failed",
                  !.message = "Unable to verify payment. Please contact support."]
          ELSE IF outcome.success
          THEN [callbackPage EXCEPT
                  !.fetch = "done", !.verified = TRUE, !.status = "success",
                  !.message = "Payment verified successfully!",
                  !.linkId = callbackPage.pendingPaymentLinkId,
                  !.timer = "pending"]
          ELSE [callbackPage EXCEPT
                  !.fetch = "done", !.status = "failed",
                  !.message = IF outcome.error # "" THEN outcome.error
                              ELSE "Payment verification failed. Please contact support."]
    /\ UNCHANGED <<server, tabs>>

\* Lines 46-53: the timer set on success fires after its delay.
RedirectDelayMs == 2000
TimerFires ==
    /\ callbackPage.status # "closed"
    /\ callbackPage.timer = "pending"
    /\ callbackPage' =
          IF callbackPage.linkId # ""
          THEN [callbackPage EXCEPT
                  !.timer = "fired", !.pendingPaymentLinkId = "",
                  !.location = [path |-> "/buy/" \o callbackPage.linkId,
                                payment |-> "success", reference |-> Ref(callbackPage)]]
          ELSE [callbackPage EXCEPT
                  !.timer = "fired",
                  !.location = [path |-> "/buyer", payment |-> "success",
                                reference |-> Ref(callbackPage)]]
    /\ UNCHANGED <<server, tabs>>

\* Lines 92-97: the Return Home button, rendered while the status is failed.
ReturnHome ==
    /\ callbackPage.status = "failed"
    /\ callbackPage.location = [path |-> "/payment/callback"]
    /\ callbackPage' = [callbackPage EXCEPT !.location = [path |-> "/"]]
    /\ UNCHANGED <<server, tabs>>

(***************************************************************************)
(* The live chat tab and the support tab (src/components/chat/             *)
(* LiveChatTab.tsx, src/components/support/SupportTab.tsx): the selected   *)
(* item, the item in the detail pane, the typed message, the sending flag, *)
(* and the load and send requests in flight.  Both components have the     *)
(* same shape; the lines quoted are those of LiveChatTab, then SupportTab. *)
(***************************************************************************)
Tabs == {"chat", "support"}
ItemIds == {"1", "2"}
MaxClicks == 2
MaxTyped == 1
MaxSends == 2

\* Lines 25-29 / 25-32: the state of a tab as first rendered.  Messages typed
\* are numbered from 1; 0 is the empty input.  posted counts the requests that
\* posted each message, and loadFailed records that some load request failed.
Opened ==
    [open |-> TRUE, selectedId |-> "", shown |-> "", message |-> 0,
     sending |-> FALSE, loads |-> [id \in ItemIds |-> 0], sends |-> <<>>,
     posted |-> [m \in 1..MaxTyped |-> 0], typed |-> 0, clicks |-> 0,
     loadFailed |-> FALSE]

\* Lines 39-43 and 49-52 / 41-45 and 51-54: loadConversation, loadTicket.  It
\* selects the id and requests the item; when the selection changes, the
\* effect on selectedId calls it once more.
loadConversation(tab, id) ==
    [tab EXCEPT !.selectedId = id,
                !.loads[id] = @ + (IF tab.selectedId = id THEN 1 ELSE 2)]

\* Line 88 / 151: a click on an item of the list.
Select(t, id) ==
    /\ tabs[t].open
    /\ tabs[t].clicks < MaxClicks
    /\ tabs' = [tabs EXCEPT ![t] =
                  [loadConversation(tabs[t], id) EXCEPT !.clicks = @ + 1]]
    /\ UNCHANGED <<server, callbackPage>>

\* Line 42 / 44: the response to a load request, in whatever order the
\* responses come back.
LoadResponds(t, id, ok) ==
    /\ tabs[t].open
    /\ tabs[t].loads[id] > 0
    /\ tabs' = [tabs EXCEPT ![t] =
                  [tabs[t] EXCEPT !.loads[id] = @ - 1,
                                  !.shown = IF ok THEN id ELSE @,
                                  !.loadFailed = @ \/ ~ok]]
    /\ UNCHANGED <<server, callbackPage>>

\* Line 141 / 195: the user types a message into the input of the detail pane.
Type(t) ==
    /\ tabs[t].open
    /\ tabs[t].shown # ""
    /\ tabs[t].message = 0
    /\ tabs[t].typed < MaxTyped
    /\ tabs' = [tabs EXCEPT ![t] =
                  [tabs[t] EXCEPT !.typed = @ + 1, !.message = tabs[t].typed + 1]]
    /\ UNCHANGED <<server, callbackPage>>

\* Lines 58-61 / 75-78: handleSend, handleSendMessage up to the request.
handleSend(t) ==
    /\ tabs[t].selectedId # ""
    /\ tabs[t].message # 0
    /\ Len(tabs[t].sends) < MaxSends
    /\ tabs' = [tabs EXCEPT ![t] =
                  [tabs[t] EXCEPT
                     !.sending = TRUE,
                     !.sends = Append(@, [id |-> tabs[t].selectedId,
                                          message |-> tabs[t].message])]]
    /\ UNCHANGED <<server, callbackPage>>

\* Line 142 / 196: the Enter key in the input.
PressEnter(t) ==
    /\ tabs[t].open
    /\ tabs[t].shown # ""
    /\ handleSend(t)

\* Lines 146-148 / 200-202: the send button, disabled while sending or with
\* an empty input.
ClickSend(t) ==
    /\ tabs[t].open
    /\ tabs[t].shown # ""
    /\ ~(tabs[t].sending \/ tabs[t].message = 0)
    /\ handleSend(t)

\* Lines 62-67 / 79-83: the response to the i-th send request in flight.
SendResponds(t, i, ok) ==
    /\ tabs[t].open
    /\ i \in 1..Len(tabs[t].sends)
    /\ LET sent == tabs[t].sends[i]
           rest == [tabs[t] EXCEPT
                      !.sending = FALSE,
                      !.sends = SubSeq(@, 1, i - 1) \o SubSeq(@, i + 1, Len(@))]
       IN  tabs' = [tabs EXCEPT ![t] =
                      IF ok
                      THEN loadConversation(
                             [rest EXCEPT !.message = 0,
                                          !.posted[sent.message] = @ + 1],
                             sent.id)
                      ELSE rest]
    /\ UNCHANGED <<server, callbackPage>>

(***************************************************************************)
(* Specifications                                                          *)
(***************************************************************************)
Request(m, segs, t, body, query) ==
    [method |-> m, pathname |-> Fn(segs), hdr |-> Bearer(t), body |-> body,
     query |-> query]

ValidTokens == {"t1", "t2"}
ProductIds == {ToString(i) : i \in 1..MaxProducts}

\* The requests of `reqs` by the route that handles them.
ByRoute(reqs) ==
    [rt \in {RouteOrder[i] : i \in DOMAIN RouteOrder} \cup {"none"} |->
        {r \in reqs : Route(r) = rt}]

\* The requests of a scenario with their unauthenticated variants (no header, a
\* header that is no bearer token, a token the identity provider rejects), the
\* preflight and a path no route matches.
BadHeaders == {NoHeader, Basic("t1"), Bearer("bad")}
WithEdges(reqs, sample) ==
    reqs
    \cup {[r EXCEPT !.hdr = h] : r \in sample, h \in BadHeaders}
    \cup {[r EXCEPT !.method = "OPTIONS", !.hdr = h] :
            r \in sample, h \in {NoHeader, Bearer("t1")}}
    \cup {[r EXCEPT !.pathname = Fn(<<"products">>), !.method = m, !.hdr = h] :
            r \in sample, m \in {"PUT", "DELETE"}, h \in {NoHeader, Bearer("t1")}}

InitHandlers ==
    /\ nextId = [t \in {"stores", "products", "social_accounts", "review_answers",
                        "seller_expenses", "chat_messages", "support_messages"} |-> 0]
    /\ pc = [p \in Procs |-> "idle"]
    /\ req = [p \in Procs |-> NoReq]
    /\ loc = [p \in Procs |-> ""]
    /\ atArrival = [p \in Procs |-> {}]
    /\ response = NoResponse

\* No page of the web client is open.
NoUi ==
    /\ callbackPage = [status |-> "closed"]
    /\ tabs = [t \in {} |-> ""]

\* The scenarios of the routes above: no conversation, no ticket, no page.
InitProcs ==
    /\ InitHandlers
    /\ chat_conversations = {}
    /\ chat_messages = {}
    /\ support_tickets = {}
    /\ support_messages = {}
    /\ NoUi

\* The store routes, on an empty resource store.
StoreReqs ==
    ByRoute(UNION {
        {Request("GET", <<>>, t, EmptyBody, EmptyBody)}
        \cup {Request("POST", <<>>, t, b, EmptyBody) :
                b \in {[name |-> "n", slug |-> s] : s \in Slugs} \cup {[name |-> "n"]}}
        \cup {Request("PUT", <<>>, t, b, EmptyBody) :
                b \in {[slug |-> s] : s \in Slugs}}
        : t \in ValidTokens})

Init ==
    /\ stores = {}
    /\ products = {}
    /\ social_accounts = {}
    /\ product_reviews = {}
    /\ review_questions = {}
    /\ review_answers = {}
    /\ seller_expenses = {}
    /\ transactions = {}
    /\ now = 0
    /\ InitProcs

Next ==
    \E p \in Procs :
        \/ \E r \in StoreReqs["GET /"] : GetStore(p, r)
        \/ \E r \in StoreReqs["POST /"] : PostStoreExisting(p, r)
        \/ \E r \in StoreReqs["PUT /"] : PutStore(p, r)
        \/ PostStoreSlug(p)
        \/ PostStoreInsert(p)

Spec == Init /\ [][Next]_vars

\* The product and social-account routes, each seller owning a store.
CatalogReqs ==
    ByRoute(UNION {
        {Request("GET", <<"products">>, t, EmptyBody, [status |-> "DRAFT"])}
        \cup {Request("POST", <<"products">>, t, b, EmptyBody) :
                b \in {[name |-> "p"], EmptyBody}}
        \cup {Request("PUT", <<"products", i>>, t, [name |-> "q"], EmptyBody) :
                i \in ProductIds}
        \cup {Request("DELETE", <<"products", i>>, t, EmptyBody, EmptyBody) :
                i \in ProductIds}
        \cup {Request("GET", <<"social">>, t, EmptyBody, EmptyBody)}
        \cup {Request("POST", <<"social">>, t, b, EmptyBody) :
                b \in {[platform |-> "x", pageUrl |-> "y"], [platform |-> "x"]}}
        \cup {Request("DELETE", <<"social", "1">>, t, EmptyBody, EmptyBody)}
        : t \in ValidTokens})

SeedStore(id, u, slug) ==
    [id |-> id, seller_id |-> u, name |-> "n", slug |-> slug, bio |-> "",
     status |-> "inactive", visibility |-> "PRIVATE", updated_at |-> 0]

InitCatalog ==
    /\ stores = {SeedStore("1", "u1", "s1"), SeedStore("2", "u2", "s2")}
    /\ products = {}
    /\ social_accounts = {}
    /\ product_reviews = {}
    /\ review_questions = {}
    /\ review_answers = {}
    /\ seller_expenses = {}
    /\ transactions = {}
    /\ now = 0
    /\ InitProcs

NextCatalog ==
    \E p \in Procs :
        \/ \E r \in CatalogReqs["GET /products"] : GetProductsStore(p, r)
        \/ \E r \in CatalogReqs["POST /products"] : PostProductStore(p, r)
        \/ \E r \in CatalogReqs["PUT /products/:id"] : PutProduct(p, r)
        \/ \E r \in CatalogReqs["DELETE /products/:id"] : DeleteProduct(p, r)
        \/ \E r \in CatalogReqs["GET /social"] : GetSocialStore(p, r)
        \/ \E r \in CatalogReqs["POST /social"] : PostSocialStore(p, r)
        \/ \E r \in CatalogReqs["DELETE /social/:id"] : DeleteSocial(p, r)
        \/ GetProductsList(p)
        \/ PostProductInsert(p)
        \/ GetSocialList(p)
        \/ PostSocialInsert(p)

SpecCatalog == InitCatalog /\ [][NextCatalog]_vars

\* The moderation routes, on reviews left by buyers.
NumReviews == 2
ReviewIds == {ToString(i) : i \in 1..NumReviews}

\* Sequences over S of length at most 2.
UpTo2(S) == {<<>>} \cup {<<a>> : a \in S} \cup {<<a, b>> : a \in S, b \in S}

ReviewReqs ==
    ByRoute(WithEdges(UNION {
        {Request("POST", <<"reviews", "bulk-update">>, t,
                 [review_ids |-> ids, status |-> "approved"], EmptyBody) :
            ids \in UpTo2(ReviewIds \cup {"none"})}
        \cup {Request("POST", <<"reviews", "bulk-update">>, t,
                      [review_ids |-> <<i>>, status |-> "rejected"], EmptyBody) :
            i \in ReviewIds}
        \cup {Request("POST", <<"reviews", "bulk-update">>, t, b, EmptyBody) :
            b \in {[status |-> "approved"], [review_ids |-> <<"1">>, status |-> "pending"]}}
        \cup {Request("PATCH", <<"reviews", i, "status">>, t, [status |-> st], EmptyBody) :
            i \in ReviewIds, st \in {"approved", "rejected", "pending"}}
        \cup {Request("GET", <<"reviews">>, t, EmptyBody, q) :
            q \in {[status |-> "approved"], [limit |-> 0], [limit |-> 101],
                   [page |-> 2, limit |-> 1], [page |-> 0]}}
        : t \in ValidTokens},
        {Request("POST", <<"reviews", "bulk-update">>, "t1",
                 [review_ids |-> <<"1">>, status |-> "approved"], EmptyBody),
         Request("PATCH", <<"reviews", "1", "status">>, "t1", [status |-> "rejected"],
                 EmptyBody)}))

ReviewReqsAll == UNION {ReviewReqs[rt] : rt \in DOMAIN ReviewReqs}

SeedReview(i) ==
    [id |-> ToString(i), seller_id |-> IF i % 2 = 1 THEN "u1" ELSE "u2",
     status |-> "pending", is_published |-> FALSE, published_at |-> Null,
     moderation_status |-> "pending", created_at |-> i]

InitReviews ==
    /\ stores = {}
    /\ products = {}
    /\ social_accounts = {}
    /\ product_reviews = {SeedReview(i) : i \in 1..NumReviews}
    /\ review_questions = {}
    /\ review_answers = {}
    /\ seller_expenses = {}
    /\ transactions = {}
    /\ now = 0
    /\ InitProcs

NextReviews ==
    \E p \in Procs :
        \/ \E r \in ReviewReqsAll : Preflight(p, r)
        \/ \E r \in ReviewReqsAll : Unauthorized(p, r)
        \/ \E r \in ReviewReqs["none"] : NotFound(p, r)
        \/ \E r \in ReviewReqs["POST /reviews/bulk-update"] : BulkUpdateReviews(p, r)
        \/ \E r \in ReviewReqs["PATCH /reviews/:id/status"] : PatchReviewStatus(p, r)
        \/ \E r \in ReviewReqs["GET /reviews"] : GetReviews(p, r)

SpecReviews == InitReviews /\ [][NextReviews]_vars

\* Answering a question a buyer asked about a product of seller u1's store,
\* while the product may be deleted.
QuestionIds == {"1"}

QuestionReqs ==
    ByRoute(UNION {
        {Request("POST", <<"questions", i, "answer">>, t, b, EmptyBody) :
            i \in QuestionIds \cup {"none"},
            b \in {[answer |-> 4], [answer |-> 2001]}}
        \cup {Request("DELETE", <<"products", i>>, t, EmptyBody, EmptyBody) :
            i \in QuestionIds}
        : t \in ValidTokens})

InitQuestions ==
    /\ stores = {SeedStore("1", "u1", "s1"), SeedStore("2", "u2", "s2")}
    /\ products = {[id |-> i, store_id |-> "1", name |-> "p", price |-> 0,
                    status |-> "DRAFT", updated_at |-> 0] : i \in QuestionIds}
    /\ social_accounts = {}
    /\ product_reviews = {}
    /\ review_questions =
          {[id |-> i, product_id |-> i, is_answered |-> FALSE] : i \in QuestionIds}
    /\ review_answers = {}
    /\ seller_expenses = {}
    /\ transactions = {}
    /\ now = 0
    /\ InitProcs

NextQuestions ==
    \E p \in Procs :
        \/ \E r \in QuestionReqs["POST /questions/:id/answer"] : AnswerQuestion(p, r)
        \/ \E r \in QuestionReqs["DELETE /products/:id"] : DeleteProduct(p, r)
        \/ AnswerProduct(p)
        \/ AnswerStore(p)
        \/ AnswerInsert(p)
        \/ AnswerFlag(p)

SpecQuestions == InitQuestions /\ [][NextQuestions]_vars

\* The expense routes and the dashboard, on a store with two transactions
\* of seller u1.
Today == 400
ExpenseIds == {ToString(i) : i \in 1..MaxExpenses}

ExpenseReqs ==
    ByRoute(UNION {
        {Request("POST", <<"financial", "expenses">>, t, b, EmptyBody) :
            b \in {[amount |-> 10, category |-> "ads", description |-> "d",
                    expense_date |-> d] : d \in {Today, Today - 40}}
                  \cup {[category |-> "ads", description |-> "d", expense_date |-> Today]}}
        \cup {Request("POST", <<"financial", "expenses">>, t, NoJson, EmptyBody)}
        \cup {Request("PATCH", <<"financial", "expenses", i>>, t, [amount |-> 25],
                      EmptyBody) : i \in ExpenseIds}
        \cup {Request("DELETE", <<"financial", "expenses", i>>, t, EmptyBody, EmptyBody) :
                i \in ExpenseIds}
        \cup {Request("GET", <<"financial", "expenses">>, t, EmptyBody, q) :
                q \in {EmptyBody, [limit |-> 1], [limit |-> 0], [limit |-> 101]}}
        \cup {Request("GET", <<"financial", "dashboard">>, t, EmptyBody, q) :
                q \in {EmptyBody, [period |-> "90d"]}}
        : t \in ValidTokens})

SeedTransactions ==
    {[id |-> "1", seller_id |-> "u1", amount |-> 100, seller_payout |-> 90,
      platform_fee |-> 10, status |-> "completed", created_at |-> Today],
     [id |-> "2", seller_id |-> "u1", amount |-> 20, seller_payout |-> Null,
      platform_fee |-> 0, status |-> "refunded", created_at |-> Today - 40]}

InitExpenses ==
    /\ stores = {}
    /\ products = {}
    /\ social_accounts = {}
    /\ product_reviews = {}
    /\ review_questions = {}
    /\ review_answers = {}
    /\ seller_expenses = {}
    /\ transactions = SeedTransactions
    /\ now = Today
    /\ InitProcs

NextExpenses ==
    \E p \in Procs :
        \/ \E r \in ExpenseReqs["POST /financial/expenses"] : PostExpense(p, r)
        \/ \E r \in ExpenseReqs["POST /financial/expenses"] : BodyRefused(p, r)
        \/ \E r \in ExpenseReqs["PATCH /financial/expenses/:id"] : PatchExpense(p, r)
        \/ \E r \in ExpenseReqs["DELETE /financial/expenses/:id"] : DeleteExpense(p, r)
        \/ \E r \in ExpenseReqs["GET /financial/expenses"] : GetExpenses(p, r)
        \/ \E r \in ExpenseReqs["GET /financial/dashboard"] : GetDashboard(p, r)

SpecExpenses == InitExpenses /\ [][NextExpenses]_vars

\* The financial reports over every choice of at most two transactions and of
\* expenses from a pool: of both sellers, completed (with and without a payout), refunded
\* and pending, inside and outside the default window.
TxPool ==
    {[id |-> "1", seller_id |-> "u1", amount |-> 100, seller_payout |-> 90,
      platform_fee |-> 10, status |-> "completed", created_at |-> Today],
     [id |-> "2", seller_id |-> "u1", amount |-> 50, seller_payout |-> Null,
      platform_fee |-> 5, status |-> "COMPLETED", created_at |-> Today - 10],
     [id |-> "3", seller_id |-> "u1", amount |-> 20, seller_payout |-> Null,
      platform_fee |-> 0, status |-> "refunded", created_at |-> Today - 40],
     [id |-> "4", seller_id |-> "u1", amount |-> 70, seller_payout |-> 60,
      platform_fee |-> 10, status |-> "pending", created_at |-> Today],
     [id |-> "5", seller_id |-> "u2", amount |-> 30, seller_payout |-> 25,
      platform_fee |-> 5, status |-> "completed", created_at |-> Today]}

ExpensePool ==
    {[id |-> "1", seller_id |-> "u1", amount |-> 10, category |-> "ads",
      expense_date |-> Today, status |-> "active", updated_at |-> Today],
     [id |-> "2", seller_id |-> "u1", amount |-> 7, category |-> "ads",
      expense_date |-> Today, status |-> "deleted", updated_at |-> Today],
     [id |-> "3", seller_id |-> "u1", amount |-> 5, category |-> "rent",
      expense_date |-> Today - 40, status |-> "active", updated_at |-> Today - 40]}

ReportReqs ==
    ByRoute(UNION {
        {Request("GET", <<"financial", "dashboard">>, t, EmptyBody, q) :
            q \in {EmptyBody, [period |-> "90d"]}}
        \cup {Request("GET", <<"financial", "reports", "profit-loss">>, t, EmptyBody, q) :
            q \in {EmptyBody, [start_date |-> Today - 40, end_date |-> Today - 5]}}
        \cup {Request("GET", <<"financial", "reports", "tax">>, t, EmptyBody, q) :
            q \in {EmptyBody, [year |-> 0], [quarter |-> "1"], [quarter |-> "3"]}}
        : t \in ValidTokens})

InitReports ==
    /\ stores = {}
    /\ products = {}
    /\ social_accounts = {}
    /\ product_reviews = {}
    /\ review_questions = {}
    /\ review_answers = {}
    /\ seller_expenses \in SUBSET ExpensePool
    /\ transactions \in {S \in SUBSET TxPool : Cardinality(S) <= 2}
    /\ now = Today
    /\ InitProcs

NextReports ==
    \E p \in Procs :
        \/ \E r \in ReportReqs["GET /financial/dashboard"] : GetDashboard(p, r)
        \/ \E r \in ReportReqs["GET /financial/reports/profit-loss"] : GetProfitLoss(p, r)
        \/ \E r \in ReportReqs["GET /financial/reports/tax"] : GetTaxReport(p, r)

SpecReports == InitReports /\ [][NextReports]_vars

\* Requests of every method on paths that no route, one route or (were the
\* conditions to overlap) several routes could take, on an empty resource
\* store.
RoutingPaths ==
    {<<>>, <<"products">>, <<"products", "1">>, <<"products", "1", "x">>, <<"social">>,
     <<"social", "1">>, <<"reviews">>, <<"reviews", "1">>, <<"reviews", "1", "status">>,
     <<"financial", "dashboard">>, <<"financial", "expenses">>,
     <<"financial", "expenses", "1">>, <<"chat", "conversations", "a.b">>, <<"unknown">>}

RoutingReqs ==
    ByRoute(WithEdges(
        {Request(m, path, "t1", EmptyBody, EmptyBody) :
            m \in Methods \ {"OPTIONS"}, path \in RoutingPaths},
        {Request("PUT", <<"products">>, "t1", EmptyBody, EmptyBody)}))

RoutingReqsAll == UNION {RoutingReqs[rt] : rt \in DOMAIN RoutingReqs}

InitRouting ==
    /\ stores = {}
    /\ products = {}
    /\ social_accounts = {}
    /\ product_reviews = {}
    /\ review_questions = {}
    /\ review_answers = {}
    /\ seller_expenses = {}
    /\ transactions = {}
    /\ now = Today
    /\ InitProcs

NextRouting ==
    \E p \in Procs :
        \/ \E r \in RoutingReqsAll : Preflight(p, r)
        \/ \E r \in RoutingReqsAll : Unauthorized(p, r)
        \/ \E r \in RoutingReqs["none"] : NotFound(p, r)
        \/ \E r \in RoutingReqs["GET /"] : GetStore(p, r)
        \/ \E r \in RoutingReqs["GET /reviews"] : GetReviews(p, r)
        \/ \E r \in RoutingReqs["GET /financial/dashboard"] : GetDashboard(p, r)
        \/ \E r \in RoutingReqs["GET /financial/expenses"] : GetExpenses(p, r)
        \/ \E r \in RoutingReqs["DELETE /products/:id"] : DeleteProduct(p, r)
        \/ \E r \in RoutingReqs["DELETE /social/:id"] : DeleteSocial(p, r)
        \/ \E r \in RoutingReqs["DELETE /financial/expenses/:id"] : DeleteExpense(p, r)

SpecRouting == InitRouting /\ [][NextRouting]_vars

\* Messages posted by seller u1 while the clock advances, on a store that holds
\* either a conversation or a ticket of theirs (a post to the other is refused).
MessagingReqs ==
    ByRoute(UNION {
        {Request("POST", <<"chat", "conversations", "1", "messages">>, t,
                 [message |-> 5], EmptyBody),
         Request("POST", <<"support", "tickets", "1", "messages">>, t,
                 [message |-> 5], EmptyBody)}
        : t \in {"t1"}})

InitMessaging ==
    /\ stores = {}
    /\ products = {}
    /\ social_accounts = {}
    /\ product_reviews = {}
    /\ review_questions = {}
    /\ review_answers = {}
    /\ seller_expenses = {}
    /\ transactions = {}
    /\ \/ /\ chat_conversations =
                {[id |-> "1", seller_id |-> "u1", last_message_at |-> Null]}
          /\ support_tickets = {}
       \/ /\ chat_conversations = {}
          /\ support_tickets = {[id |-> "1", user_id |-> "u1", updated_at |-> 0]}
    /\ chat_messages = {}
    /\ support_messages = {}
    /\ now = 0
    /\ InitHandlers
    /\ NoUi

NextMessaging ==
    \/ Tick
    \/ \E p \in Procs :
        \/ \E r \in MessagingReqs["POST /chat/conversations/:id/messages"] :
              PostChatMessage(p, r)
        \/ ChatInsert(p)
        \/ ChatStamp(p)
        \/ ChatUpdate(p)
        \/ \E r \in MessagingReqs["POST /support/tickets/:id/messages"] :
              PostSupportMessage(p, r)
        \/ SupportInsert(p)
        \/ SupportStamp(p)
        \/ SupportUpdate(p)

SpecMessaging == InitMessaging /\ [][NextMessaging]_vars

\* Updates by seller u1 of their store, their product or their expense (the
\* resource store holds one of the three) while the clock advances.
UpdateReqs ==
    ByRoute(
        {Request("PUT", <<>>, "t1", b, EmptyBody) :
            b \in {[name |-> "m"], [bio |-> "b"], [name |-> ""],
                   [visibility |-> "PUBLIC", status |-> "active"]}}
        \cup {Request("PUT", <<"products", "1">>, "t1", b, EmptyBody) :
            b \in {[price |-> 5], [name |-> "q"], [status |-> "ACTIVE"]}}
        \cup {Request("PATCH", <<"financial", "expenses", "1">>, "t1", b, EmptyBody) :
            b \in {[amount |-> 25], [category |-> "rent"], [expense_date |-> 1]}})

InitUpdates ==
    /\ \/ /\ stores = {SeedStore("1", "u1", "s1")}
          /\ products = {}
          /\ seller_expenses = {}
       \/ /\ stores = {}
          /\ products = {[id |-> "1", store_id |-> "1", name |-> "p", price |-> 0,
                          status |-> "DRAFT", updated_at |-> 0]}
          /\ seller_expenses = {}
       \/ /\ stores = {}
          /\ products = {}
          /\ seller_expenses = {[id |-> "1", seller_id |-> "u1", amount |-> 10,
                                 category |-> "ads", expense_date |-> 0,
                                 status |-> "active", updated_at |-> 0]}
    /\ social_accounts = {}
    /\ product_reviews = {}
    /\ review_questions = {}
    /\ review_answers = {}
    /\ transactions = {}
    /\ now = 0
    /\ InitProcs

NextUpdates ==
    \/ Tick
    \/ \E p \in Procs :
        \/ \E r \in UpdateReqs["PUT /"] : PutStore(p, r)
        \/ \E r \in UpdateReqs["PUT /products/:id"] : PutProduct(p, r)
        \/ \E r \in UpdateReqs["PATCH /financial/expenses/:id"] : PatchExpense(p, r)

SpecUpdates == InitUpdates /\ [][NextUpdates]_vars

\* The callback page opened on every kind of callback URL: with a reference,
\* a trxref, both or neither; for a purchase, a wallet top-up or without a type;
\* with and without a pending link id in the session.
InitCallback ==
    /\ stores = {}
    /\ products = {}
    /\ social_accounts = {}
    /\ product_reviews = {}
    /\ review_questions = {}
    /\ review_answers = {}
    /\ seller_expenses = {}
    /\ transactions = {}
    /\ chat_conversations = {}
    /\ chat_messages = {}
    /\ support_tickets = {}
    /\ support_messages = {}
    /\ now = 0
    /\ InitHandlers
    /\ tabs = [t \in {} |-> ""]
    /\ callbackPage \in
          {Rendered(reference, trxref, paymentType, pending) :
              reference \in {"", "r1"}, trxref \in {"", "r2"},
              paymentType \in {"", "order", "topup"}, pending \in {"", "L1"}}

NextCallback ==
    \/ RunEffect
    \/ \E outcome \in VerifyOutcomes : VerifyResponds(outcome)
    \/ TimerFires
    \/ ReturnHome

SpecCallback == InitCallback /\ [][NextCallback]_vars

\* The seller dashboard with the chat tab or the support tab open.
InitTabs ==
    /\ stores = {}
    /\ products = {}
    /\ social_accounts = {}
    /\ product_reviews = {}
    /\ review_questions = {}
    /\ review_answers = {}
    /\ seller_expenses = {}
    /\ transactions = {}
    /\ chat_conversations = {}
    /\ chat_messages = {}
    /\ support_tickets = {}
    /\ support_messages = {}
    /\ now = 0
    /\ InitHandlers
    /\ callbackPage = [status |-> "closed"]
    /\ \E o \in Tabs :
          tabs = [t \in Tabs |-> IF t = o THEN Opened ELSE [open |-> FALSE]]

NextTabs ==
    \E t \in Tabs :
        \/ \E id \in ItemIds : Select(t, id)
        \/ \E id \in ItemIds, ok \in BOOLEAN : LoadResponds(t, id, ok)
        \/ Type(t)
        \/ PressEnter(t)
        \/ ClickSend(t)
        \/ \E i \in 1..MaxSends, ok \in BOOLEAN : SendResponds(t, i, ok)

SpecTabs == InitTabs /\ [][NextTabs]_vars

(***************************************************************************)
(* Observing a step                                                        *)
(***************************************************************************)
\* In this step a request arrived at process p and its first step ran.
Arrives(p) ==
    /\ pc[p] = "idle"
    /\ \/ pc'[p] # "idle"
       \/ pc' = pc /\ response'.seq # response.seq /\ response'.step = "idle"

\* The request that arrived at p in this step, and its route.
Arrived(p) == IF pc'[p] # "idle" THEN req'[p] ELSE response'.req
ArrivedAt(p, route) == Arrives(p) /\ Route(Arrived(p)) = route

\* This step answered a request of this route with status 200; the request.
Served(route) ==
    /\ response'.seq # response.seq
    /\ response'.status = 200 /\ response'.success /\ response'.error = ""
    /\ Route(response'.req) = route

\* In this step request r was answered with this status and error.
Answered(r, status, error) ==
    /\ response'.seq # response.seq
    /\ response'.req = r
    /\ response'.status = status
    /\ response'.success = (status < 400)
    /\ response'.error = error

\* This step is a step of a request authenticated as user u.
StepBy(u) ==
    \/ \E p \in Procs : pc[p] # "idle" /\ pc'[p] # pc[p] /\ AuthUser(req[p].hdr) = {u}
    \/ \E p \in Procs : pc[p] = "idle" /\ pc'[p] # "idle" /\ AuthUser(req'[p].hdr) = {u}
    \/ /\ response'.seq # response.seq
       /\ response'.step = "idle"
       /\ AuthUser(response'.req.hdr) = {u}

\* The seller a product or a social account belongs to: the seller of its store.
SellersOfStore(store_id) == {s.seller_id : s \in {t \in stores : t.id = store_id}}

(***************************************************************************)
(* Claims                                                                  *)
(***************************************************************************)
\* C1: no step of a request changes or removes a row owned by another
\* identity than its caller: a store, review or expense whose seller_id is
\* the caller's, a product or social account whose store is the caller's.
C1_OnlyOwnRowsTouched ==
    [][\A u \in Users : StepBy(u) =>
          /\ \A s \in stores \ stores' : s.seller_id = u
          /\ \A x \in products \ products' : SellersOfStore(x.store_id) = {u}
          /\ \A a \in social_accounts \ social_accounts' :
                SellersOfStore(a.store_id) = {u}
          /\ \A v \in product_reviews \ product_reviews' : v.seller_id = u
          /\ \A e \in seller_expenses \ seller_expenses' : e.seller_id = u]_vars

\* The request carries no Authorization header, a header that does not start
\* with "Bearer ", or a token the identity provider rejects.
NoValidToken(r) == r.hdr.scheme # "Bearer" \/ GetUser(r.hdr.token) = {}

\* C2 as stated: every request without a valid bearer token, whatever its
\* method and path, is answered 401 with success false in its first step, with
\* no row in the answer and no table changed.
C2_AnyMethodRefused ==
    [][\A p \in Procs :
          (Arrives(p) /\ NoValidToken(Arrived(p)))
          => /\ pc'[p] = "idle"
             /\ response'.status = 401 /\ response'.success = FALSE
             /\ response'.data = {}
             /\ UNCHANGED tables]_vars

\* C2, amended: every request other than an OPTIONS preflight that has no
\* valid bearer token is answered 401 "Unauthorized" with success false in its
\* first step: no handler step follows, the answer carries no row and no table
\* changes.
C2_NoTokenRefused ==
    [][\A p \in Procs :
          (Arrives(p) /\ NoValidToken(Arrived(p)) /\ Arrived(p).method # "OPTIONS")
          => /\ pc'[p] = "idle"
             /\ Answered(Arrived(p), 401, "Unauthorized")
             /\ response'.data = {}
             /\ UNCHANGED tables]_vars

\* A bulk update with a token the identity provider rejects was answered 401
\* and the review it names is still pending.
C2_Witness ==
    /\ response.status = 401
    /\ response.req.hdr = Bearer("bad")
    /\ Route(response.req) = "POST /reviews/bulk-update"
    /\ \E v \in product_reviews : /\ v.id \in Range(response.req.body.review_ids)
                                  /\ v.status = "pending"

\* C3: each seller owns at most one row of stores, in every reachable state.
C3_OneStorePerSeller ==
    \A u \in Users : Cardinality(StoresOf(u)) <= 1

\* C4: a POST / with a name and a slug by a caller who owns a store is
\* answered 400 "User already has a store" and leaves stores unchanged.
C4_SecondStoreRefused ==
    [][\A p \in Procs :
          ( /\ ArrivedAt(p, "POST /")
            /\ Truthy(Arrived(p).body, "name") /\ Truthy(Arrived(p).body, "slug")
            /\ StoresOf(UserOf(Arrived(p))) # {} )
          => /\ Answered(Arrived(p), 400, "User already has a store")
             /\ stores' = stores]_vars

\* C5: the slug check of a POST / by a caller without a store, with the slug
\* of another seller's store, answers 400 "Slug already taken" and inserts no
\* row.
C5_TakenSlugRefused ==
    [][\A p \in Procs :
          ( /\ pc[p] = "POST / slug" /\ pc'[p] # pc[p]
            /\ StoresOf(UserOf(req[p])) = {}
            /\ \E s \in stores : s.slug = req[p].body.slug
                                 /\ s.seller_id # UserOf(req[p]) )
          => /\ Answered(req[p], 400, "Slug already taken")
             /\ stores' = stores]_vars

\* C6: no two rows of stores have the same slug.
C6_SlugsUnique ==
    \A s \in stores, t \in stores : s.slug = t.slug => s = t

\* C7: a bulk update changes only reviews of the list that the caller owns:
\* every review of another seller, and every review not in the list, keeps its
\* status, is_published, published_at and moderation_status.
C7_BulkUpdateOnlyOwn ==
    [][Served("POST /reviews/bulk-update") =>
          \A v \in product_reviews :
              ( \/ v.seller_id # UserOf(response'.req)
                \/ v.id \notin Range(response'.req.body.review_ids) )
              => v \in product_reviews']_vars

\* A bulk update that listed another seller's review was answered 200; that
\* review is still pending and the caller's own review is moderated.
C7_Witness ==
    /\ response.status = 200
    /\ Route(response.req) = "POST /reviews/bulk-update"
    /\ \E v \in product_reviews, w \in product_reviews :
          /\ v.id \in Range(response.req.body.review_ids)
          /\ w.id \in Range(response.req.body.review_ids)
          /\ v.seller_id # UserOf(response.req) /\ v.status = "pending"
          /\ w.seller_id = UserOf(response.req) /\ w.status # "pending"

\* C8: the `updated` count of a bulk update is the number of reviews it
\* changed: the reviews of the batch that the caller owns.
C8_UpdatedCountsMutated ==
    [][Served("POST /reviews/bulk-update") =>
          response'.data.updated =
              Cardinality({v \in product_reviews :
                  /\ v.seller_id = UserOf(response'.req)
                  /\ v.id \in Range(response'.req.body.review_ids)})]_vars

\* C9: an answer request that arrives when its caller is not the seller of the
\* store holding the question's product (and passes validation and finds the
\* question) never inserts an answer or changes a question, and ends 403.
C9_ForeignAnswerRefused ==
    [][\A p \in Procs :
          /\ ( /\ ArrivedAt(p, "POST /questions/:id/answer")
               /\ ~AnswerInvalid(Arrived(p).body)
               /\ \E q \in review_questions : q.id = NormPath(Arrived(p).pathname)[2]
               /\ UserOf(Arrived(p)) \notin
                      QuestionSellers(NormPath(Arrived(p).pathname)[2]) )
             => /\ pc'[p] = "answer product"
                /\ UNCHANGED <<review_answers, review_questions>>
          /\ ( /\ pc[p] \in {"answer product", "answer store", "answer insert",
                             "answer flag"}
               /\ pc'[p] # pc[p]
               /\ UserOf(req[p]) \notin atArrival[p] )
             => /\ UNCHANGED <<review_answers, review_questions>>
                /\ pc'[p] \in {"answer store", "idle"}
                /\ pc'[p] = "idle" => Answered(req[p], 403, "Unauthorized")]_vars

\* Seller u2 was refused the answer to the question about u1's product, which
\* u1 has answered.
C9_Witness ==
    /\ response.status = 403
    /\ Route(response.req) = "POST /questions/:id/answer"
    /\ UserOf(response.req) = "u2"
    /\ \E x \in products : x.id = "1"
    /\ \E a \in review_answers : a.answerer_id = "u1"
    /\ \A a \in review_answers : a.answerer_id # "u2"

\* The caller's expenses of the window that are not deleted.
LiveInWindow(u, startDate, endDate) ==
    {e \in seller_expenses : /\ e.seller_id = u /\ e.status # "deleted"
                             /\ InWindow(e.expense_date, startDate, endDate)}

\* C10: a DELETE of an expense the caller owns sets its status to "deleted"
\* and removes no row; a deleted expense stays a deleted row in every step; a
\* listing shows no deleted expense; the dashboard's expenses sum is the sum of
\* the caller's expenses of the period that are not deleted.
C10_SoftDelete ==
    [][/\ \A p \in Procs :
             ArrivedAt(p, "DELETE /financial/expenses/:id") =>
                 \A e \in seller_expenses :
                     ( /\ e.id = NormPath(Arrived(p).pathname)[3]
                       /\ e.seller_id = UserOf(Arrived(p)) )
                     => /\ [e EXCEPT !.status = "deleted"] \in seller_expenses'
                        /\ Cardinality(seller_expenses') = Cardinality(seller_expenses)
                        /\ Answered(Arrived(p), 200, "")
       /\ \A e \in seller_expenses :
             e.status = "deleted" =>
                 /\ \E f \in seller_expenses' : f.id = e.id
                 /\ \A f \in seller_expenses' : f.id = e.id => f.status = "deleted"
       /\ Served("GET /financial/expenses") =>
             \A e \in seller_expenses :
                 e.status = "deleted" => \A x \in response'.data.expenses : x.id # e.id
       /\ Served("GET /financial/dashboard") =>
             response'.data.expenses =
                 ExpenseTotal(LiveInWindow(UserOf(response'.req),
                     now - PeriodDays(IF Truthy(response'.req.query, "period")
                                      THEN response'.req.query.period ELSE "30d"),
                     now))]_vars

\* Seller u1 has a deleted expense of today with a positive amount, and the
\* dashboard of u1, read after the deletion, sums the expenses without it.
C10_Witness ==
    /\ \E e \in seller_expenses : /\ e.seller_id = "u1" /\ e.status = "deleted"
                                  /\ e.amount > 0 /\ e.expense_date = now
    /\ response.status = 200
    /\ Route(response.req) = "GET /financial/dashboard"
    /\ UserOf(response.req) = "u1"
    /\ response.data.expenses = ExpenseTotal(LiveInWindow("u1", now - 30, now))

\* C11: every listing of reviews or expenses that is answered 200 carries a
\* pagination whose limit is a positive integer at most 100 and whose pages is
\* the non-negative integer ceil(total / limit).
C11_PaginationBounds ==
    [][(Served("GET /reviews") \/ Served("GET /financial/expenses")) =>
          LET pg == response'.data.pagination
          IN  /\ pg.limit >= 1 /\ pg.limit <= MaxLimit
              /\ pg.pages.kind = "number"
              /\ pg.pages.value >= 0
              /\ pg.pages.value * pg.limit >= pg.total
              /\ (pg.pages.value - 1) * pg.limit < pg.total]_vars

\* C12: the dashboard's sums are those of the caller's transactions and
\* active expenses of the period: revenue over completed rows of seller_payout
\* (amount when there is none), refunds over refunded rows of amount,
\* commission over completed rows of platform_fee, expenses over the active
\* expenses, gross_profit = revenue - refunds, net_profit = gross_profit -
\* expenses.
C12_DashboardSums ==
    [][Served("GET /financial/dashboard") =>
          LET u == UserOf(response'.req)
              q == response'.req.query
              start == now - PeriodDays(IF Truthy(q, "period") THEN q.period ELSE "30d")
              tx == {t \in transactions : /\ t.seller_id = u
                                          /\ start <= t.created_at /\ t.created_at <= now}
              done == {t \in tx : Lower(t.status) = "completed"}
              back == {t \in tx : Lower(t.status) = "refunded"}
              ex == {e \in seller_expenses :
                        /\ e.seller_id = u /\ e.status = "active"
                        /\ start <= e.expense_date /\ e.expense_date <= now}
              d == response'.data
          IN  /\ d.revenue = Sum(done, [t \in done |-> IF t.seller_payout = Null
                                                       THEN t.amount
                                                       ELSE t.seller_payout])
              /\ d.refunds = Sum(back, [t \in back |-> t.amount])
              /\ d.commission = Sum(done, [t \in done |-> t.platform_fee])
              /\ d.expenses = Sum(ex, [e \in ex |-> e.amount])
              /\ d.gross_profit = d.revenue - d.refunds
              /\ d.net_profit = d.gross_profit - d.expenses]_vars

\* One completed row {amount 100, seller_payout 90, platform_fee 10} and no
\* expenses: the dashboard says revenue 90, commission 10, net_profit 90.
C12_Witness ==
    /\ transactions = {t \in TxPool : t.id = "1"}
    /\ seller_expenses = {}
    /\ response.status = 200
    /\ Route(response.req) = "GET /financial/dashboard"
    /\ UserOf(response.req) = "u1"
    /\ response.data.revenue = 90
    /\ response.data.commission = 10
    /\ response.data.net_profit = 90

\* The revenue a report states, and whether it states a ratio.
ReportedRevenue(route, d) ==
    IF route = "GET /financial/dashboard" THEN d.revenue
    ELSE IF route = "GET /financial/reports/profit-loss" THEN d.revenue.gross_sales
    ELSE d.total_sales
ReportRoutes ==
    {"GET /financial/dashboard", "GET /financial/reports/profit-loss",
     "GET /financial/reports/tax"}

\* C13 as stated: each of the three reports, when its revenue is 0, reports
\* the ratio profit_margin as the string "0".
C13_ZeroMarginInEveryReport ==
    [][\A route \in ReportRoutes :
          (Served(route) /\ ReportedRevenue(route, response'.data) = 0)
          => /\ "profit_margin" \in DOMAIN response'.data
             /\ response'.data.profit_margin.text = "0"]_vars

\* C13, amended: the dashboard and the profit-loss report state profit_margin
\* "0" when their revenue is 0 and a two-decimal number otherwise (never NaN
\* or Infinity); the tax report states no ratio at all.
C13_ZeroMargin ==
    [][/\ \A route \in ReportRoutes \ {"GET /financial/reports/tax"} :
             Served(route) =>
                 /\ ReportedRevenue(route, response'.data) = 0
                        => response'.data.profit_margin = [text |-> "0", hundredths |-> 0]
                 /\ response'.data.profit_margin.text \in {"0", "fixed2"}
       /\ Served("GET /financial/reports/tax") =>
             "profit_margin" \notin DOMAIN response'.data]_vars

\* A profit-loss report with no revenue and a loss states the margin "0".
C13_Witness ==
    /\ response.status = 200
    /\ Route(response.req) = "GET /financial/reports/profit-loss"
    /\ response.data.revenue.gross_sales = 0
    /\ response.data.net_profit < 0
    /\ response.data.profit_margin.text = "0"

\* The routes whose condition a (method, normalized path) pair satisfies.
AllRoutes == {RouteOrder[i] : i \in DOMAIN RouteOrder}
Satisfied(m, path) == {rt \in AllRoutes : Matches(rt, m, path)}

\* No pair of a method and a path (those of the scenarios and the odd ones of
\* the routing scenario) satisfies two routes.
RoutesDisjoint ==
    \A m \in Methods, path \in CachedPaths \cup RoutingPaths :
        Cardinality(Satisfied(m, path)) <= 1

\* C14: no (method, normalized path) pair satisfies the condition of two
\* routes, the route taken is the one satisfied, and a request that reaches
\* the dispatcher with a pair that satisfies none is answered 404 "Not found"
\* with success false and changes no table.
C14_OneRouteOrNotFound ==
    [][/\ RoutesDisjoint
       /\ \A p \in Procs :
             ( /\ Arrives(p)
               /\ Arrived(p).method # "OPTIONS"
               /\ ~NoValidToken(Arrived(p)) )
             => LET sat == Satisfied(Arrived(p).method, NormPath(Arrived(p).pathname))
                IN  /\ sat # {} => sat = {Route(Arrived(p))}
                    /\ sat = {} => /\ Answered(Arrived(p), 404, "Not found")
                                   /\ UNCHANGED tables]_vars

\* PUT /products, with no id, was answered 404.
C14_Witness ==
    /\ response.status = 404
    /\ response.success = FALSE
    /\ response.req.method = "PUT"
    /\ NormPath(response.req.pathname) = <<"products">>
    /\ ~NoValidToken(response.req)

\* C15: a PATCH /reviews/:id/status with a valid status whose id matches no
\* review of the caller (none at all, or another seller's) is answered 404
\* with success false and changes no table.
C15_UnknownIdNotFound ==
    [][\A p \in Procs :
          ( /\ ArrivedAt(p, "PATCH /reviews/:id/status")
            /\ ~NoValidToken(Arrived(p))
            /\ Has(Arrived(p).body, "status")
            /\ Arrived(p).body.status \in {"approved", "rejected"}
            /\ \A v \in product_reviews :
                  v.id = NormPath(Arrived(p).pathname)[2] => v.seller_id # UserOf(Arrived(p)) )
          => /\ response'.status = 404 /\ response'.success = FALSE
             /\ UNCHANGED tables]_vars

\* The store refuses the reads of this tax report request: its period ends
\* on a day its month does not have.
TaxReadsFail(r) ==
    ~TaxPeriod(IF Has(r.query, "year") THEN r.query.year ELSE YearOf(now),
               IF Truthy(r.query, "quarter") THEN r.query.quarter ELSE "").valid

\* C16: a request one of whose store calls fails ends with status 500 and
\* success false, here a tax report whose reads the store refuses.
C16_StoreErrorIs500 ==
    [][\A p \in Procs :
          ( /\ ArrivedAt(p, "GET /financial/reports/tax")
            /\ TaxReadsFail(Arrived(p)) )
          => response'.status = 500 /\ response'.success = FALSE]_vars

\* The expense body lacks a required field (line 753).
MissingExpenseField(body) ==
    \/ ~Has(body, "amount") \/ ~Truthy(body, "category")
    \/ ~Truthy(body, "description") \/ ~Has(body, "expense_date")

\* C17: a request that lacks a required body field is answered 400 with
\* success false in its first step, before any lookup or write, and leaves
\* every table unchanged; here POST /financial/expenses.
C17_MissingFieldRefused ==
    [][\A p \in Procs :
          ( /\ ArrivedAt(p, "POST /financial/expenses")
            /\ ~NoValidToken(Arrived(p))
            /\ MissingExpenseField(Arrived(p).body) )
          => /\ response'.seq # response.seq
             /\ response'.status = 400 /\ response'.success = FALSE
             /\ UNCHANGED tables]_vars

\* The part of C17 that holds: a JSON body that lacks a required field is
\* refused with 400 in the first step and no table changes.
C17_MissingFieldOfJsonRefused ==
    [][\A p \in Procs :
          ( /\ ArrivedAt(p, "POST /financial/expenses")
            /\ ~NoValidToken(Arrived(p))
            /\ Parses(Arrived(p).body)
            /\ MissingExpenseField(Arrived(p).body) )
          => /\ response'.seq # response.seq
             /\ response'.status = 400 /\ response'.success = FALSE
             /\ UNCHANGED tables]_vars

\* C18: two concurrent requests of different callers end as they would one
\* after the other.  Run one after the other, a POST / is answered 201 only if
\* no other seller's store has its slug when the row is inserted.
C18_CreatedAsInSerialOrder ==
    [][\A p \in Procs :
          ( /\ pc[p] = "POST / insert"
            /\ response'.seq # response.seq
            /\ response'.req = req[p] /\ response'.status = 201 )
          => ~\E s \in stores : /\ s.slug = req[p].body.slug
                                 /\ s.seller_id # UserOf(req[p])]_vars

\* C19: a question is answered once: it never has more than one seller answer
\* row, and an answered question stays answered.
C19_AnsweredOnce ==
    [][/\ \A q \in review_questions' :
             Cardinality({a \in review_answers' : /\ a.question_id = q.id
                                                  /\ a.answerer_type = "seller"}) <= 1
       /\ \A q \in review_questions :
             q.is_answered => \E x \in review_questions' : x.id = q.id /\ x.is_answered]_vars

\* C20: the status of a review changes only from pending, and only to
\* approved or rejected.
C20_ModeratedOnce ==
    [][\A v \in product_reviews, w \in product_reviews' :
          (w.id = v.id /\ w.status # v.status)
          => v.status = "pending" /\ w.status \in {"approved", "rejected"}]_vars

NoChatPostInFlight ==
    \A p \in Procs : pc[p] \notin {"chat insert", "chat stamp", "chat update"}

\* C26: when no message post is in flight, a conversation's last_message_at
\* is not earlier than the created_at of any of its messages.
C26_StampNotBehindNewest ==
    NoChatPostInFlight =>
        \A c \in chat_conversations, m \in chat_messages :
            m.conversation_id = c.id => c.last_message_at >= m.created_at

\* The period of a tax report request.
TaxPeriodOf(r) ==
    TaxPeriod(IF Has(r.query, "year") THEN r.query.year ELSE YearOf(now),
              IF Truthy(r.query, "quarter") THEN r.query.quarter ELSE "")

\* C22: the tax report of a period carries the sums the profit-loss report
\* gives the same caller over the same rows and the same window: total_sales
\* is gross_sales, total_refunds is refunds, total_expenses is
\* operating_expenses and taxable_income is net_profit.
C22_TaxAsProfitLoss ==
    [][( /\ Served("GET /financial/reports/tax")
         /\ TaxPeriodOf(response'.req).valid )
       => LET period == TaxPeriodOf(response'.req)
              pl == ProfitLoss(UserOf(response'.req), period.start, period.end)
              tax == response'.data
          IN  /\ tax.total_sales = pl.revenue.gross_sales
              /\ tax.total_refunds = pl.revenue.refunds
              /\ tax.total_expenses = pl.expenses.operating_expenses
              /\ tax.taxable_income = pl.net_profit]_vars

\* A tax report of a period with refunds and expenses was returned.
C22_Witness ==
    /\ response.status = 200
    /\ Route(response.req) = "GET /financial/reports/tax"
    /\ response.data.total_refunds > 0
    /\ response.data.total_expenses > 0

\* C27: every moderated review (its status is approved or rejected) is
\* published exactly when it is approved, has a published_at exactly when it
\* is approved, and has moderation_status "reviewed".
C27_ModeratedConsistent ==
    \A v \in product_reviews :
        v.status \in {"approved", "rejected"} =>
            /\ v.is_published = (v.status = "approved")
            /\ (v.published_at # Null) = (v.status = "approved")
            /\ v.moderation_status = "reviewed"

\* A review of seller u1 is rejected and a review of seller u2 is approved.
C27_Witness ==
    /\ \E v \in product_reviews : v.status = "rejected" /\ v.seller_id = "u1"
    /\ \E v \in product_reviews : v.status = "approved" /\ v.seller_id = "u2"
    /\ response.status = 200
    /\ Route(response.req) \in {"PATCH /reviews/:id/status", "POST /reviews/bulk-update"}

\* The first and the last calendar day of quarter q of a year.
QuarterStart(year, q) == year * DaysPerYear + MonthStart[3 * (q - 1) + 1]
QuarterEnd(year, q) == year * DaysPerYear + MonthStart[3 * q] + MonthLength[3 * q] - 1

\* C28: the window of a tax report for quarter q starts on the first day of
\* month 3(q-1)+1 and ends on the last calendar day of month 3q, a date that
\* exists; without a valid quarter it is the whole year.
C28_QuarterWindow ==
    [][\A p \in Procs :
          ( /\ ArrivedAt(p, "GET /financial/reports/tax")
            /\ ~NoValidToken(Arrived(p)) )
          => LET r == Arrived(p)
                 year == IF Has(r.query, "year") THEN r.query.year ELSE YearOf(now)
                 period == TaxPeriodOf(r)
             IN  /\ period.valid
                 /\ \A q \in 1..4 :
                       (Has(r.query, "quarter") /\ r.query.quarter = ToString(q)) =>
                           /\ period.start = QuarterStart(year, q)
                           /\ period.end = QuarterEnd(year, q)
                 /\ (~Has(r.query, "quarter") \/ r.query.quarter \notin {"1", "2", "3", "4"}) =>
                       /\ period.start = year * DaysPerYear
                       /\ period.end = year * DaysPerYear + DaysPerYear - 1]_vars

\* Every row of `after` has, in each field outside `exempt` that the body does
\* not carry, the value the row of that id had in `before`.
AbsentFieldsKept(before, after, body, exempt) ==
    \A x \in before, y \in after :
        y.id = x.id =>
            \A f \in DOMAIN x \ exempt : f \notin DOMAIN body => y[f] = x[f]

\* C23 as stated: a successful PUT /, PUT /products/:id or PATCH
\* /financial/expenses/:id changes no field of the row that its body does
\* not carry.
C23_OnlyPresentFieldsChange ==
    [][/\ Served("PUT /") =>
             AbsentFieldsKept(stores, stores', response'.req.body, {})
       /\ Served("PUT /products/:id") =>
             AbsentFieldsKept(products, products', response'.req.body, {})
       /\ Served("PATCH /financial/expenses/:id") =>
             AbsentFieldsKept(seller_expenses, seller_expenses',
                              response'.req.body, {})]_vars

\* C23, amended: such an update changes no field that its body does not
\* carry except updated_at, which it sets to the time of the update.
C23_OnlyPresentFieldsAndUpdatedAtChange ==
    [][/\ Served("PUT /") =>
             /\ AbsentFieldsKept(stores, stores', response'.req.body, {"updated_at"})
             /\ \A y \in response'.data : y \in stores' /\ y.updated_at = now
       /\ Served("PUT /products/:id") =>
             /\ AbsentFieldsKept(products, products', response'.req.body, {"updated_at"})
             /\ \A y \in response'.data : y \in products' /\ y.updated_at = now
       /\ Served("PATCH /financial/expenses/:id") =>
             /\ AbsentFieldsKept(seller_expenses, seller_expenses',
                                 response'.req.body, {"updated_at"})
             /\ \A y \in response'.data :
                   y \in seller_expenses' /\ y.updated_at = now]_vars

\* The store was given a bio and then, later, a name: it has both, and the
\* time of the last update.
C23_Witness ==
    /\ response.status = 200
    /\ Route(response.req) = "PUT /"
    /\ response.req.body = [name |-> "m"]
    /\ \E s \in stores : s.name = "m" /\ s.bio = "b" /\ s.updated_at > 0

\* The browser is on a route that says the payment succeeded.
OnPaymentSuccess ==
    /\ callbackPage.status # "closed"
    /\ "payment" \in DOMAIN callbackPage.location
    /\ callbackPage.location.payment = "success"

\* C24: the page opened with a reference posts it exactly once: once its
\* effect has run one verification request has been issued, and never
\* another; the status is success or failed once the request is back and leaves
\* neither; the page leaves the callback route only from success, by the
\* timer's redirect to /buy/<linkId> or /buyer, or from failed, by Return Home.
C24_VerifiedOncePerVisit ==
    [][( /\ callbackPage.status # "closed"
         /\ Ref(callbackPage) # "" )
       => /\ callbackPage'.effect = "done" => callbackPage'.posts = 1
          /\ callbackPage.status \in {"success", "failed"} =>
                callbackPage'.status = callbackPage.status
          /\ callbackPage'.location # callbackPage.location =>
                \/ /\ callbackPage.status = "success"
                   /\ callbackPage'.location.path =
                         IF callbackPage.linkId # ""
                         THEN "/buy/" \o callbackPage.linkId ELSE "/buyer"
                \/ /\ callbackPage.status = "failed"
                   /\ callbackPage'.location = [path |-> "/"]]_vars

\* The same visit, a wallet top-up apart: what C24 says holds of every other
\* callback URL with a reference.
C24_VerifiedOnceUnlessTopUp ==
    [][( /\ callbackPage.status # "closed"
         /\ Ref(callbackPage) # ""
         /\ callbackPage.paymentType # "topup" )
       => /\ callbackPage'.effect = "done" => callbackPage'.posts = 1
          /\ callbackPage.status \in {"success", "failed"} =>
                callbackPage'.status = callbackPage.status
          /\ callbackPage'.location # callbackPage.location =>
                \/ /\ callbackPage.status = "success"
                   /\ callbackPage'.location.path =
                         IF callbackPage.linkId # ""
                         THEN "/buy/" \o callbackPage.linkId ELSE "/buyer"
                \/ /\ callbackPage.status = "failed"
                   /\ callbackPage'.location = [path |-> "/"]]_vars

\* C25: for a callback URL with a reference, the browser is on a route with
\* payment=success only if the verification request for the reference came
\* back with success.
C25_SuccessOnlyAfterVerification ==
    (Ref(callbackPage) # "" /\ OnPaymentSuccess) => callbackPage.verified

\* C29: in an open tab with no load request in flight, none of which failed,
\* the detail pane shows the item selected last.
C29_ShowsSelected ==
    \A t \in Tabs :
        ( /\ tabs # <<>>
          /\ tabs[t].open
          /\ \A id \in ItemIds : tabs[t].loads[id] = 0
          /\ ~tabs[t].loadFailed )
        => tabs[t].shown = tabs[t].selectedId

\* C30: in an open tab at most one send request is in flight, and no typed
\* message is posted more than once.
C30_OneSendInFlight ==
    \A t \in Tabs :
        (tabs # <<>> /\ tabs[t].open)
        => /\ Len(tabs[t].sends) <= 1
           /\ \A m \in 1..MaxTyped : tabs[t].posted[m] <= 1

====
